---- MODULE Spec2Model ----
(***************************************************************************)
(* WasmBindgenWebpackPlugin (src/src/index.ts, lines 364-845): the result  *)
(* cache with its staleness check, the build pipeline driven by external   *)
(* processes, and the per-compilation promise that delays the type checker.*)
(*                                                                         *)
(* The host (webpack, fork-ts-checker-webpack-plugin) and the file system  *)
(* are the environment: the host creates compilations, asks to resolve     *)
(* module requests during a compilation, ends a compilation with           *)
(* afterCompile once all its requests settled, and runs the type checker's *)
(* start hook; files are touched, deleted and made unreadable by the user. *)
(***************************************************************************)
EXTENDS Integers, Sequences, FiniteSets, TLC

VARIABLES
  clock,                \* the file system's current time
  exists,               \* the files that exist
  mtime,                \* file -> modification time
  packageJson,          \* output directory -> what its package.json holds
  unreadable,           \* directories whose readdirSync throws (EACCES)
  vanished,             \* files that are removed during the next staleness check, after it has seen them
  edits,                \* how often the user changed the file system
  optimizeWebassembly,  \* this.options.optimizeWebassembly
  cargoArgs,            \* this.options.cargoArgs
  compilationCache,     \* this.compilationCache: Cargo.toml path -> CompilationResult
  cargoTargetDirCache,  \* this.cargoTargetDirCache: crate dir -> target directory
  req,                  \* request slot -> a beforeResolve invocation of a running compilation
  events,               \* request slot -> the 'close' and 'error' events of each of its child processes
  created,              \* how many CompilationResult objects runWasmBindgen has returned
  phase,                \* compilation -> "none" | "new" | "make" | "ended"
  own,                  \* compilation -> compilation.compiler === compiler
  fileDependencies,     \* compilation -> compilation.fileDependencies, as added by the plugin
  contextDependencies,  \* compilation -> compilation.contextDependencies, as added by the plugin
  compilationPromises,  \* the WeakMap: compilation -> signal id (NoSignal: no entry)
  signal,               \* signal id -> the promise made for a compilation, in order of creation
  resolveCalls,         \* signal id -> how often resolve() was called on it
  waiter,               \* compilation -> the start hook's position
  awaited,              \* compilation -> the signal its start hook awaits
  dirty,                \* project -> a file changed since the last store in the cache
  buildFailed           \* the compilations the host got a cargo build failure for

vars == <<clock, exists, mtime, packageJson, unreadable, vanished, edits,
          optimizeWebassembly, cargoArgs, compilationCache, cargoTargetDirCache, req, events,
          created, phase, own, fileDependencies, contextDependencies, compilationPromises,
          signal, resolveCalls, waiter, awaited, dirty, buildFailed>>

fsVars == <<clock, exists, mtime, packageJson, unreadable, vanished, edits>>
options == <<optimizeWebassembly, cargoArgs>>
pluginVars == <<compilationCache, cargoTargetDirCache, req, events, created, dirty>>
hostVars == <<phase, own, fileDependencies, contextDependencies, buildFailed>>
barrierVars == <<compilationPromises, signal, resolveCalls, waiter, awaited>>

----------------------------------------------------------------------------
\* Bounds of the model.
MaxClock == 2
MaxEdits == 2
MaxRequests == 2
MaxBuilds == 2
MaxCompilations == 2
MaxTargets == 2
SequenceClock == 3    \* the times of a build, a change and a rebuild
SequenceBuilds == 3   \* a build, a rebuild and the request after it

Projects == {"p1", "p2"}
Edited == {"p1"}     \* the project whose files the user changes
Compilations == 1..MaxCompilations
Requests == 1..MaxRequests

None == [none |-> TRUE]

Range(seq) == {seq[i] : i \in DOMAIN seq}
NoSignal == 0

----------------------------------------------------------------------------
\* The file system. A file is [root, dir, base, ext]; a project's root is its
\* crate directory, an artifact's root is the output directory of its crate.

CrateName(p) == [p1 |-> "crate1", p2 |-> "crate2"][p]

File(root, dir, base, ext) == [root |-> root, dir |-> dir, base |-> base, ext |-> ext]

CargoToml(p) == File(<<"crateDir", p>>, ".", "Cargo", "toml")
LibRs(p) == File(<<"crateDir", p>>, "src", "lib", "rs")
Readme(p) == File(<<"crateDir", p>>, ".", "README", "md")

SrcDir == "src"

\* The directories below a directory of the source tree.
SubDirs(dir) ==
  CASE dir = "src" -> {"src/sub"}
    [] OTHER -> {}

SrcDirs == {"src", "src/sub"}

\* The files the model places in a directory of project p's source tree.
FilesIn(p, dir) ==
  CASE dir = "src" -> {LibRs(p), File(<<"crateDir", p>>, "src", "data", "txt")}
    [] dir = "src/sub" -> {File(<<"crateDir", p>>, "src/sub", "mod", "rs")}
    [] OTHER -> {}

SrcFiles(p) == UNION {FilesIn(p, d) : d \in SrcDirs}
ProjectFiles(p) == {CargoToml(p), Readme(p)} \cup SrcFiles(p)

\* path.join(this.options.cacheDir, crateName)
OutputDir(crateName) == <<"cacheDir", crateName>>

JsPath(crateName) == File(OutputDir(crateName), ".", "index", "js")
WasmPath(crateName) == File(OutputDir(crateName), ".", "index_bg", "wasm")
DtsPath(crateName) == File(OutputDir(crateName), ".", "index.d", "ts")
Artifacts(crateName) == {JsPath(crateName), WasmPath(crateName), DtsPath(crateName)}

AllFiles == UNION {ProjectFiles(p) \cup Artifacts(CrateName(p)) : p \in Projects}

\* entry.name.endsWith(".rs")
EndsWithRs(f) == f.ext = "rs"

\* fs.existsSync(path.join(cargoDir, "src")): the model never removes a directory.
SrcDirExists(p) == SrcDir \in SrcDirs

\* The build's intermediate files. A path is the sequence of its segments,
\* with the extension of the file as the last one.

\* this.cargoTargetDirCache.has(crateDir) is false.
NotMemoized == <<>>

\* The target_directory cargo metadata reports in the crate directory of p.
TargetDir(p) == <<"target", p>>

\* path.join(cargoTargetDir, "wasm32-unknown-unknown", "release", `${crateName}.wasm`)
WasmFile(cargoTargetDir, crateName) ==
  cargoTargetDir \o <<"wasm32-unknown-unknown", "release", crateName, ".wasm">>

\* String.prototype.replace with a string as its pattern: the first
\* occurrence is replaced.
RECURSIVE Replace(_, _, _)
Replace(path, pattern, replacement) ==
  IF path = <<>> THEN <<>>
  ELSE IF Head(path) = pattern THEN <<replacement>> \o Tail(path)
  ELSE <<Head(path)>> \o Replace(Tail(path), pattern, replacement)

\* An optimizer that writes its output over its input.
OptimizedWasmFileInPlace(wasmFile) == wasmFile

\* wasmFile.replace(".wasm", ".opt.wasm")
OptimizedWasmFile(wasmFile) == Replace(wasmFile, ".wasm", ".opt.wasm")

\* The constructor's default for cargoArgs, and the lists the model is
\* constructed with.
DefaultCargoArgs == <<"--release">>
CargoArgsChoices == {DefaultCargoArgs, <<>>}

\* Where cargo build puts the binary of the crate: in the directory of the
\* profile its arguments select.
Profile(args) == IF "--release" \in Range(args) THEN "release" ELSE "debug"

CargoBuildOutput(cargoTargetDir, args, crateName) ==
  cargoTargetDir \o <<"wasm32-unknown-unknown", Profile(args), crateName, ".wasm">>

----------------------------------------------------------------------------
\* The staleness check.

\* fs.statSync(f) returns: the file exists and is not removed while the check
\* runs (fs.existsSync and fs.readdirSync saw it before).
Stat(f) == f \in exists /\ f \notin vanished

\* The walk without its recursion into subdirectories.
AreRustFilesUpToDateFlat(p, dir, generatedTime) ==
  IF <<p, dir>> \in unreadable
  THEN FALSE
  ELSE \A f \in FilesIn(p, dir) \cap exists :
         EndsWithRs(f) => (Stat(f) /\ ~(mtime[f] > generatedTime))

RECURSIVE AreRustFilesUpToDate(_, _, _)
AreRustFilesUpToDate(p, dir, generatedTime) ==
  IF <<p, dir>> \in unreadable
  THEN FALSE    \* readdirSync throws, the catch returns false
  ELSE /\ \A d \in SubDirs(dir) : AreRustFilesUpToDate(p, d, generatedTime)
       /\ \A f \in FilesIn(p, dir) \cap exists :
            EndsWithRs(f) => (Stat(f) /\ ~(mtime[f] > generatedTime))

\* Variants of the staleness check with one of its tests changed: without the
\* test of index_bg.wasm or of index.d.ts, without the test of Cargo.toml, or
\* with >= in place of > for Cargo.toml.
IsResultValidVariant(result, p, testWasm, testDts, testToml, strict) ==
  LET filesExist == /\ result.jsPath \in exists
                    /\ (testWasm => result.wasmPath \in exists)
                    /\ (testDts => (result.dtsPath = None \/ result.dtsPath \in exists))
  IN  IF ~filesExist THEN FALSE
      ELSE IF ~Stat(CargoToml(p)) \/ ~Stat(result.jsPath) THEN FALSE
      ELSE IF testToml /\ mtime[CargoToml(p)] > mtime[result.jsPath] THEN FALSE
      ELSE IF strict /\ mtime[CargoToml(p)] = mtime[result.jsPath] THEN FALSE
      ELSE AreRustFilesUpToDate(p, SrcDir, mtime[result.jsPath])

IsResultValidStrict(result, p) == IsResultValidVariant(result, p, TRUE, TRUE, TRUE, TRUE)
IsResultValidNoDts(result, p) == IsResultValidVariant(result, p, TRUE, FALSE, TRUE, FALSE)
IsResultValidNoWasm(result, p) == IsResultValidVariant(result, p, FALSE, TRUE, TRUE, FALSE)
IsResultValidNoToml(result, p) == IsResultValidVariant(result, p, TRUE, TRUE, FALSE, FALSE)

\* A staleness check that takes a Cargo.toml it cannot stat for unchanged.
IsResultValidSkipsMissing(result, p) ==
  LET filesExist == /\ result.jsPath \in exists
                    /\ result.wasmPath \in exists
                    /\ (result.dtsPath = None \/ result.dtsPath \in exists)
  IN  IF ~filesExist THEN FALSE
      ELSE IF ~Stat(result.jsPath) THEN FALSE
      ELSE IF Stat(CargoToml(p)) /\ mtime[CargoToml(p)] > mtime[result.jsPath] THEN FALSE
      ELSE IF SrcDirExists(p)
           THEN AreRustFilesUpToDate(p, SrcDir, mtime[result.jsPath])
           ELSE TRUE

IsResultValid(result, p) ==
  LET filesExist == /\ result.jsPath \in exists
                    /\ result.wasmPath \in exists
                    /\ (result.dtsPath = None \/ result.dtsPath \in exists)
  IN  IF ~filesExist THEN FALSE
      ELSE IF ~Stat(CargoToml(p)) \/ ~Stat(result.jsPath) THEN FALSE   \* statSync throws
      ELSE IF mtime[CargoToml(p)] > mtime[result.jsPath] THEN FALSE
      ELSE IF SrcDirExists(p)
           THEN AreRustFilesUpToDate(p, SrcDir, mtime[result.jsPath])
           ELSE TRUE

----------------------------------------------------------------------------
\* Module requests: the beforeResolve handler and the pipeline it awaits.

\* What a child process does: it closes with an exit code after writing to
\* stderr, or it cannot be spawned ('error', and 'close' with the errno as
\* its code when its streams are closed).
Close(code, stdout, stderr) ==
  [event |-> "close", code |-> code, stdout |-> stdout, stderr |-> stderr]
SpawnFailure == [event |-> "error", message |-> "spawn ENOENT"]

\* What a process wrote to stdout: a JSON text with its value, or a text
\* JSON.parse throws a SyntaxError for.
Json(value) == [parses |-> TRUE, value |-> value]
NoOutput == [parses |-> FALSE, value |-> None]

Failures == {Close("1", NoOutput, "error: could not compile"), SpawnFailure}
Outcomes == {Close("0", NoOutput, "")} \cup Failures
ClosesAfterError == {Close("-2", NoOutput, "")}

\* The CargoManifest cargo read-manifest prints in the crate directory of p.
Target(name, crate_types) == [name |-> name, crate_types |-> crate_types]
Manifest(p, targets) == [manifest_path |-> CargoToml(p), targets |-> targets]

\* The manifests of project p: a crate with a binary and a cdylib library,
\* and a crate whose library is no cdylib.
Manifests(p) ==
  {Manifest(p, <<Target("cli", {"bin"}), Target(CrateName(p), {"cdylib", "rlib"})>>),
   Manifest(p, <<Target(CrateName(p), {"rlib"})>>)}

ManifestOutcomes(manifests) == {Close("0", Json(m), "") : m \in manifests} \cup Failures

\* cargo metadata prints the metadata, or something that is no JSON.
MetadataOutcomes(p) ==
  {Close("0", Json([target_directory |-> TargetDir(p)]), ""), Close("0", NoOutput, "")}
    \cup Failures

\* The Error of getManifestInfo, by the words of its message.
NoCdylibTarget ==
  <<"No", "cdylib", "target found in Cargo.toml. Make sure your Cargo.toml includes",
    "[lib]", "with", "crate-type", "=", "[", "cdylib", "]">>

\* The last of the targets that are a cdylib.
CdylibTargetLast(targets) ==
  LET found == {i \in DOMAIN targets : "cdylib" \in targets[i].crate_types}
  IN  IF found = {} THEN None
      ELSE targets[CHOOSE i \in found : \A j \in found : i >= j]

\* The manifests cargo read-manifest can print for a crate with up to
\* MaxTargets targets.
TargetNames == {"crate1", "crate2"}
CrateTypes == {{"bin"}, {"cdylib"}, {"rlib", "cdylib"}}
TargetLists ==
  UNION {[1..n -> {Target(name, types) : name \in TargetNames, types \in CrateTypes}] :
           n \in 0..MaxTargets}
AnyManifests(p) == {Manifest(p, targets) : targets \in TargetLists}

\* manifest.targets.find((target) => target.crate_types.includes("cdylib"))
CdylibTarget(targets) ==
  LET found == {i \in DOMAIN targets : "cdylib" \in targets[i].crate_types}
  IN  IF found = {} THEN None
      ELSE targets[CHOOSE i \in found : \A j \in found : i <= j]

\* code === 0
Succeeded(out) == out.event = "close" /\ out.code = "0"

\* errorPrefix || command
Prefix(command, errorPrefix) == IF errorPrefix # "" THEN errorPrefix ELSE command

\* An Error that names no command and drops what the process wrote to stderr.
RejectionAnonymous(command, errorPrefix, out) ==
  IF out.event = "error"
  THEN <<"Failed to spawn", "process", out.message>>
  ELSE <<"process", "failed with exit code", out.code, "">>

\* The Error spawnProcess rejects with.
Rejection(command, errorPrefix, out) ==
  IF out.event = "error"
  THEN <<"Failed to spawn", Prefix(command, errorPrefix), out.message>>
  ELSE <<Prefix(command, errorPrefix), "failed with exit code", out.code, out.stderr>>

Settled == {"passed", "done", "failed"}
Awaiting == {"manifest", "metadata", "build", "opt", "bindgen"}

Idle == [pc |-> "idle"]

\* A beforeResolve invocation: request is resolveData.request, ran the
\* commands it has spawned and argv the file arguments of each of them.
NewRequest(c, p, request, pc, ran, error) ==
  [c |-> c, p |-> p, request |-> request, pc |-> pc, ran |-> ran,
   argv |-> [i \in DOMAIN ran |-> <<>>], lookup |-> "none", result |-> None,
   error |-> error]

Active == {r \in Requests : req[r] # Idle}

\* The CompilationResult runWasmBindgen returns; obj tells one result object
\* from another.
CompilationResult(crateName, obj) ==
  [jsPath |-> JsPath(crateName), wasmPath |-> WasmPath(crateName),
   dtsPath |-> DtsPath(crateName), obj |-> obj]

\* The output directories of the crates.
OutputDirs == {OutputDir(crateName) : crateName \in TargetNames}

\* The name of a file in its directory.
FileName(f) == <<f.base, f.ext>>

\* packageJsonContent of runWasmBindgen.
PackageJsonContent(crateName) ==
  [name |-> crateName, version |-> "0.0.0", main |-> <<"index", "js">>,
   types |-> <<"index.d", "ts">>, sideEffects |-> TRUE, private |-> TRUE]

\* fs.writeFileSync(packageJsonPath, ...) of runWasmBindgen.
WritePackageJson(crateName) ==
  [packageJson EXCEPT ![OutputDir(crateName)] = PackageJsonContent(crateName)]

Spawn(r, command, args, pc) ==
  req' = [req EXCEPT ![r].pc = pc, ![r].ran = Append(@, command),
                     ![r].argv = Append(@, args)]

\* The arguments request r has spawned a command with.
Args(r, command) ==
  req[r].argv[CHOOSE i \in DOMAIN req[r].ran : req[r].ran[i] = command]

\* The handler's crateName: the name of the cdylib target of the manifest
\* cargo read-manifest printed for it.
CrateNameOf(r) == CdylibTarget(events[r][1][1].stdout.value.targets).name

Fail(r, error) ==
  req' = [req EXCEPT ![r].pc = "failed", ![r].error = error]

\* runCargoBuild: spawns cargo build with --target-dir and the cargoArgs.
RunCargoBuild(r, cargoTargetDir) ==
  Spawn(r, "cargo build", <<cargoTargetDir, cargoArgs>>, "build")

\* runWasmBindgen up to its await: spawns wasm-bindgen on wasmFile with the
\* crate's output directory as --out-dir.
RunWasmBindgen(r, wasmFile) ==
  Spawn(r, "wasm-bindgen", <<wasmFile, OutputDir(CrateNameOf(r))>>, "bindgen")

\* runWasmOpt up to its await, for the wasmFile compileRustCrate derives from
\* the target directory: a pass-through when optimization is off.
RunWasmOpt(r) ==
  LET wasmFile == WasmFile(Args(r, "cargo build")[1], CrateNameOf(r))
  IN  IF ~optimizeWebassembly
      THEN RunWasmBindgen(r, wasmFile)
      ELSE Spawn(r, "wasm-opt", <<wasmFile, OptimizedWasmFile(wasmFile)>>, "opt")

\* getCargoTargetDir that asks cargo metadata every time.
GetCargoTargetDirNoMemo(r, lookup) ==
  req' = [req EXCEPT ![r].pc = "metadata", ![r].lookup = lookup,
                     ![r].ran = Append(@, "cargo metadata"),
                     ![r].argv = Append(@, <<>>)]

\* getCargoTargetDir up to its await: the memoized directory, or cargo metadata.
\* lookup tells how the cache lookup before it ended.
GetCargoTargetDir(r, lookup) ==
  IF cargoTargetDirCache[req[r].p] # NotMemoized
  THEN req' = [req EXCEPT ![r].pc = "build", ![r].lookup = lookup,
                          ![r].ran = Append(@, "cargo build"),
                          ![r].argv = Append(@, <<cargoTargetDirCache[req[r].p], cargoArgs>>)]
  ELSE req' = [req EXCEPT ![r].pc = "metadata", ![r].lookup = lookup,
                          ![r].ran = Append(@, "cargo metadata"),
                          ![r].argv = Append(@, <<>>)]

\* compileRustCrate that builds nothing while another request is building the
\* same crate, and takes what the cache holds.
CompileRustCrateDeduplicated(r) ==
  LET p == req[r].p
      building == {q \in Active \ {r} : req[q].p = p /\ req[q].pc \in Awaiting \ {"manifest"}}
  IN  IF compilationCache[p] # None /\ IsResultValid(compilationCache[p], p)
      THEN req' = [req EXCEPT ![r].pc = "done", ![r].lookup = "hit",
                              ![r].result = compilationCache[p],
                              ![r].request = compilationCache[p].jsPath]
      ELSE IF building # {}
      THEN req' = [req EXCEPT ![r].pc = "done", ![r].lookup = "joined",
                              ![r].result = compilationCache[p]]
      ELSE GetCargoTargetDir(r, IF compilationCache[p] # None THEN "stale" ELSE "miss")

\* compileRustCrate whose caller leaves resolveData.request alone on a hit.
CompileRustCrateHitKeepsRequest(r) ==
  LET p == req[r].p
  IN  IF compilationCache[p] # None
      THEN IF IsResultValid(compilationCache[p], p)
           THEN req' = [req EXCEPT ![r].pc = "done", ![r].lookup = "hit",
                                   ![r].result = compilationCache[p]]
           ELSE GetCargoTargetDir(r, "stale")
      ELSE GetCargoTargetDir(r, "miss")

\* compileRustCrate that resolves the target directory before it looks the
\* cache up.
CompileRustCrateTargetDirFirst(r) ==
  LET p == req[r].p
  IN  IF cargoTargetDirCache[p] = NotMemoized
      THEN Spawn(r, "cargo metadata", <<>>, "metadata")
      ELSE IF compilationCache[p] # None /\ IsResultValid(compilationCache[p], p)
      THEN req' = [req EXCEPT ![r].pc = "done", ![r].lookup = "hit",
                              ![r].result = compilationCache[p],
                              ![r].request = compilationCache[p].jsPath]
      ELSE GetCargoTargetDir(r, IF compilationCache[p] # None THEN "stale" ELSE "miss")

\* compileRustCrate up to its first await: the cache lookup, then the pipeline.
\* compileRustCrate that remembers a failed compile step: once cargo build
\* has failed in a compilation, a request without a valid entry is rejected
\* with that error and nothing is spawned.
CompileRustCrateCachesFailure(r) ==
  LET p == req[r].p
      valid == compilationCache[p] # None /\ IsResultValid(compilationCache[p], p)
  IN  IF valid
      THEN req' = [req EXCEPT ![r].pc = "done", ![r].lookup = "hit",
                              ![r].result = compilationCache[p],
                              ![r].request = compilationCache[p].jsPath]
      ELSE IF req[r].c \in buildFailed
           THEN Fail(r, Rejection("cargo", "cargo build",
                                  Close("1", NoOutput, "error: could not compile")))
      ELSE GetCargoTargetDir(r, IF compilationCache[p] # None THEN "stale" ELSE "miss")

\* compileRustCrate that returns whatever entry the cache holds, without the
\* staleness check.
CompileRustCrateTrustsEntry(r) ==
  LET p == req[r].p
  IN  IF compilationCache[p] # None
      THEN req' = [req EXCEPT ![r].pc = "done", ![r].lookup = "hit",
                              ![r].result = compilationCache[p],
                              ![r].request = compilationCache[p].jsPath]
      ELSE GetCargoTargetDir(r, "miss")

CompileRustCrate(r) ==
  LET p == req[r].p
  IN  IF compilationCache[p] # None
      THEN IF IsResultValid(compilationCache[p], p)
           THEN req' = [req EXCEPT ![r].pc = "done", ![r].lookup = "hit",
                                   ![r].result = compilationCache[p],
                                   ![r].request = compilationCache[p].jsPath]
           ELSE GetCargoTargetDir(r, "stale")
      ELSE GetCargoTargetDir(r, "miss")

\* beforeResolve that keeps the manifest of a crate it has built: a request
\* for a crate with a valid entry is answered without cargo read-manifest.
BeforeResolveKeepsManifest(r, c, p, lib) ==
  /\ phase[c] = "make"
  /\ req[r] = Idle
  /\ \A q \in Requests : q < r => req[q] # Idle
  /\ req' = [req EXCEPT ![r] =
       IF ~lib THEN NewRequest(c, p, Readme(p), "passed", <<>>, <<"none", "none">>)
       ELSE IF LibRs(p) \notin exists
            THEN NewRequest(c, p, LibRs(p), "failed", <<>>,
                            <<"beforeResolve", "lib.rs not found">>)
       ELSE IF compilationCache[p] # None /\ IsResultValid(compilationCache[p], p)
            THEN [NewRequest(c, p, compilationCache[p].jsPath, "done", <<>>,
                             <<"none", "none">>)
                    EXCEPT !.lookup = "hit", !.result = compilationCache[p]]
            ELSE NewRequest(c, p, LibRs(p), "manifest", <<"cargo read-manifest">>,
                            <<"none", "none">>)]
  /\ events' = [events EXCEPT ![r] = <<>>]
  /\ UNCHANGED <<fsVars, options, compilationCache,
                 cargoTargetDirCache, created, dirty, hostVars, barrierVars>>

\* beforeResolve without the test of the request's ending: every request is
\* taken for a crate's entry point.
BeforeResolveEveryRequest(r, c, p, lib) ==
  /\ phase[c] = "make"
  /\ req[r] = Idle
  /\ \A q \in Requests : q < r => req[q] # Idle
  /\ req' = [req EXCEPT ![r] =
       LET request == IF lib THEN LibRs(p) ELSE Readme(p)
       IN  IF request \notin exists
           THEN NewRequest(c, p, request, "failed", <<>>,
                           <<"beforeResolve", "lib.rs not found">>)
           ELSE NewRequest(c, p, request, "manifest", <<"cargo read-manifest">>,
                           <<"none", "none">>)]
  /\ events' = [events EXCEPT ![r] = <<>>]
  /\ UNCHANGED <<fsVars, options, compilationCache,
                 cargoTargetDirCache, created, dirty, hostVars, barrierVars>>

\* beforeResolve without fs.existsSync: the manifest of a crate is read
\* whether or not its lib.rs exists.
BeforeResolveSkipsExists(r, c, p, lib) ==
  /\ phase[c] = "make"
  /\ req[r] = Idle
  /\ \A q \in Requests : q < r => req[q] # Idle
  /\ req' = [req EXCEPT ![r] =
       IF ~lib THEN NewRequest(c, p, Readme(p), "passed", <<>>, <<"none", "none">>)
       ELSE NewRequest(c, p, LibRs(p), "manifest", <<"cargo read-manifest">>,
                       <<"none", "none">>)]
  /\ events' = [events EXCEPT ![r] = <<>>]
  /\ UNCHANGED <<fsVars, options, compilationCache,
                 cargoTargetDirCache, created, dirty, hostVars, barrierVars>>

\* beforeResolve: a request that does not end with lib.rs passes; a missing
\* lib.rs fails; otherwise cargo read-manifest is spawned.
BeforeResolve(r, c, p, lib) ==
  /\ phase[c] = "make"
  /\ req[r] = Idle
  /\ \A q \in Requests : q < r => req[q] # Idle
  /\ req' = [req EXCEPT ![r] =
       IF ~lib THEN NewRequest(c, p, Readme(p), "passed", <<>>, <<"none", "none">>)
       ELSE IF LibRs(p) \notin exists
            THEN NewRequest(c, p, LibRs(p), "failed", <<>>,
                            <<"beforeResolve", "lib.rs not found">>)
            ELSE NewRequest(c, p, LibRs(p), "manifest", <<"cargo read-manifest">>,
                            <<"none", "none">>)]
  /\ events' = [events EXCEPT ![r] = <<>>]
  /\ UNCHANGED <<fsVars, options, compilationCache,
                 cargoTargetDirCache, created, dirty, hostVars, barrierVars>>

\* cargo read-manifest ends, and the handler goes on only when no other
\* request is in its pipeline.
ManifestExitSerialized(r, out) ==
  /\ req[r].pc = "manifest"
  /\ \A q \in Active \ {r} : req[q].pc \notin Awaiting \ {"manifest"}
  /\ events' = [events EXCEPT ![r] = Append(@, <<out>>)]
  /\ IF ~Succeeded(out) THEN Fail(r, Rejection("cargo", "cargo read-manifest", out))
     ELSE IF CdylibTarget(out.stdout.value.targets) = None
          THEN Fail(r, NoCdylibTarget)
     ELSE CompileRustCrate(r)
  /\ exists' = exists \ vanished
  /\ UNCHANGED packageJson
  /\ mtime' = [f \in AllFiles |-> IF f \in vanished THEN 0 ELSE mtime[f]]
  /\ vanished' = {}
  /\ UNCHANGED <<clock, unreadable, edits, options, compilationCache,
                 cargoTargetDirCache, created, dirty, hostVars, barrierVars>>

\* cargo read-manifest ends: getManifestInfo returns and compileRustCrate runs
\* to its first await.
ManifestExit(r, out) ==
  /\ req[r].pc = "manifest"
  /\ events' = [events EXCEPT ![r] = Append(@, <<out>>)]
  /\ IF ~Succeeded(out) THEN Fail(r, Rejection("cargo", "cargo read-manifest", out))
     ELSE IF CdylibTarget(out.stdout.value.targets) = None
          THEN Fail(r, NoCdylibTarget)
     ELSE CompileRustCrate(r)
  /\ exists' = exists \ vanished
  /\ UNCHANGED packageJson
  /\ mtime' = [f \in AllFiles |-> IF f \in vanished THEN 0 ELSE mtime[f]]
  /\ vanished' = {}
  /\ UNCHANGED <<clock, unreadable, edits, options, compilationCache,
                 cargoTargetDirCache, created, dirty, hostVars, barrierVars>>

\* cargo metadata ends, and is run again when it failed.
MetadataExitRetries(r, out) ==
  /\ req[r].pc = "metadata"
  /\ events' = [events EXCEPT ![r] = Append(@, <<out>>)]
  /\ IF Succeeded(out) /\ out.stdout.parses
     THEN /\ cargoTargetDirCache' =
               [cargoTargetDirCache EXCEPT ![req[r].p] = out.stdout.value.target_directory]
          /\ RunCargoBuild(r, out.stdout.value.target_directory)
     ELSE /\ IF Len(req[r].ran) < 3
             THEN Spawn(r, "cargo metadata", <<>>, "metadata")
             ELSE Fail(r, Rejection("cargo", "cargo metadata", out))
          /\ UNCHANGED cargoTargetDirCache
  /\ UNCHANGED <<fsVars, options, compilationCache, created, dirty,
                 hostVars, barrierVars>>

\* cargo metadata ends, and a failure removes the memoized directory.
MetadataExitInvalidates(r, out) ==
  /\ req[r].pc = "metadata"
  /\ events' = [events EXCEPT ![r] = Append(@, <<out>>)]
  /\ IF Succeeded(out) /\ out.stdout.parses
     THEN /\ cargoTargetDirCache' =
               [cargoTargetDirCache EXCEPT ![req[r].p] = out.stdout.value.target_directory]
          /\ RunCargoBuild(r, out.stdout.value.target_directory)
     ELSE /\ Fail(r, IF Succeeded(out) THEN <<"SyntaxError", "JSON.parse">>
                     ELSE Rejection("cargo", "cargo metadata", out))
          /\ cargoTargetDirCache' = [cargoTargetDirCache EXCEPT ![req[r].p] = NotMemoized]
  /\ UNCHANGED <<fsVars, options, compilationCache, created, dirty,
                 hostVars, barrierVars>>

\* cargo metadata ends, and a failure memoizes the directory "target" of the
\* crate.
MetadataExitMemoizesFailure(r, out) ==
  /\ req[r].pc = "metadata"
  /\ events' = [events EXCEPT ![r] = Append(@, <<out>>)]
  /\ IF Succeeded(out) /\ out.stdout.parses
     THEN /\ cargoTargetDirCache' =
               [cargoTargetDirCache EXCEPT ![req[r].p] = out.stdout.value.target_directory]
          /\ RunCargoBuild(r, out.stdout.value.target_directory)
     ELSE /\ Fail(r, IF Succeeded(out) THEN <<"SyntaxError", "JSON.parse">>
                     ELSE Rejection("cargo", "cargo metadata", out))
          /\ cargoTargetDirCache' =
               [cargoTargetDirCache EXCEPT ![req[r].p] = <<"crateDir", req[r].p, "target">>]
  /\ UNCHANGED <<fsVars, options, compilationCache, created, dirty,
                 hostVars, barrierVars>>

\* cargo metadata ends: its output is parsed, the target directory is
\* memoized and cargo build spawned.
MetadataExit(r, out) ==
  /\ req[r].pc = "metadata"
  /\ events' = [events EXCEPT ![r] = Append(@, <<out>>)]
  /\ IF ~Succeeded(out)
     THEN /\ Fail(r, Rejection("cargo", "cargo metadata", out))
          /\ UNCHANGED cargoTargetDirCache
     ELSE IF ~out.stdout.parses
     THEN /\ Fail(r, <<"SyntaxError", "JSON.parse">>)
          /\ UNCHANGED cargoTargetDirCache
     ELSE /\ cargoTargetDirCache' =
               [cargoTargetDirCache EXCEPT ![req[r].p] = out.stdout.value.target_directory]
          /\ RunCargoBuild(r, out.stdout.value.target_directory)
  /\ UNCHANGED <<fsVars, options, compilationCache, created, dirty,
                 hostVars, barrierVars>>

\* cargo build ends, and the pipeline goes on whatever its exit code.
BuildExitIgnoresFailure(r, out) ==
  /\ req[r].pc = "build"
  /\ events' = [events EXCEPT ![r] = Append(@, <<out>>)]
  /\ RunWasmOpt(r)
  /\ UNCHANGED <<fsVars, options, compilationCache,
                 cargoTargetDirCache, created, dirty, hostVars, barrierVars>>

\* cargo build ends.
BuildExit(r, out) ==
  /\ req[r].pc = "build"
  /\ events' = [events EXCEPT ![r] = Append(@, <<out>>)]
  /\ IF Succeeded(out) THEN RunWasmOpt(r)
     ELSE Fail(r, Rejection("cargo", "cargo build", out))
  /\ UNCHANGED <<fsVars, options, compilationCache,
                 cargoTargetDirCache, created, dirty, hostVars, barrierVars>>

\* wasm-opt ends, and wasm-bindgen runs on the unoptimized file when it failed.
OptExitFallsBack(r, out) ==
  /\ req[r].pc = "opt"
  /\ events' = [events EXCEPT ![r] = Append(@, <<out>>)]
  /\ RunWasmBindgen(r, Args(r, "wasm-opt")[1])
  /\ UNCHANGED <<fsVars, options, compilationCache,
                 cargoTargetDirCache, created, dirty, hostVars, barrierVars>>

\* wasm-opt ends.
OptExit(r, out) ==
  /\ req[r].pc = "opt"
  /\ events' = [events EXCEPT ![r] = Append(@, <<out>>)]
  /\ IF Succeeded(out) THEN RunWasmBindgen(r, Args(r, "wasm-opt")[2])
     ELSE Fail(r, Rejection("wasm-opt", "", out))
  /\ UNCHANGED <<fsVars, options, compilationCache,
                 cargoTargetDirCache, created, dirty, hostVars, barrierVars>>

\* wasm-bindgen ends, and a failure removes the entry of the crate.
BindgenExitDropsEntry(r, out) ==
  /\ req[r].pc = "bindgen"
  /\ events' = [events EXCEPT ![r] = Append(@, <<out>>)]
  /\ IF Succeeded(out)
     THEN LET p == req[r].p
              result == CompilationResult(CrateNameOf(r), created + 1)
              written == Artifacts(CrateNameOf(r))
          IN  /\ exists' = exists \cup written
              /\ packageJson' = WritePackageJson(CrateNameOf(r))
              /\ mtime' = [f \in AllFiles |-> IF f \in written THEN clock ELSE mtime[f]]
              /\ compilationCache' = [compilationCache EXCEPT ![p] = result]
              /\ req' = [req EXCEPT ![r].pc = "done", ![r].result = result,
                                     ![r].request = result.jsPath]
              /\ created' = created + 1
              /\ dirty' = [dirty EXCEPT ![p] = FALSE]
     ELSE /\ Fail(r, Rejection("wasm-bindgen", "", out))
          /\ compilationCache' = [compilationCache EXCEPT ![req[r].p] = None]
          /\ UNCHANGED <<exists, mtime, packageJson, created, dirty>>
  /\ UNCHANGED <<clock, unreadable, vanished, edits, options,
                 cargoTargetDirCache, hostVars, barrierVars>>

\* wasm-bindgen ends, and the result is stored only when the crate has no entry.
BindgenExitKeepsPrior(r, out) ==
  /\ req[r].pc = "bindgen"
  /\ events' = [events EXCEPT ![r] = Append(@, <<out>>)]
  /\ IF Succeeded(out)
     THEN LET p == req[r].p
              result == CompilationResult(CrateNameOf(r), created + 1)
              written == Artifacts(CrateNameOf(r))
          IN  /\ exists' = exists \cup written
              /\ packageJson' = WritePackageJson(CrateNameOf(r))
              /\ mtime' = [f \in AllFiles |-> IF f \in written THEN clock ELSE mtime[f]]
              /\ compilationCache' = IF compilationCache[p] = None
                                     THEN [compilationCache EXCEPT ![p] = result]
                                     ELSE compilationCache
              /\ req' = [req EXCEPT ![r].pc = "done", ![r].result = result,
                                     ![r].request = result.jsPath]
              /\ created' = created + 1
              /\ dirty' = [dirty EXCEPT ![p] = FALSE]
     ELSE /\ Fail(r, Rejection("wasm-bindgen", "", out))
          /\ UNCHANGED <<exists, mtime, packageJson, compilationCache, created, dirty>>
  /\ UNCHANGED <<clock, unreadable, vanished, edits, options,
                 cargoTargetDirCache, hostVars, barrierVars>>

\* runWasmBindgen that writes package.json along with the output directory,
\* before it spawns wasm-bindgen: the file is there however the process ends.
BindgenExitDescriptorFirst(r, out) ==
  /\ req[r].pc = "bindgen"
  /\ events' = [events EXCEPT ![r] = Append(@, <<out>>)]
  /\ packageJson' = WritePackageJson(CrateNameOf(r))
  /\ IF Succeeded(out)
     THEN LET p == req[r].p
              result == CompilationResult(CrateNameOf(r), created + 1)
              written == Artifacts(CrateNameOf(r))
          IN  /\ exists' = exists \cup written
              /\ mtime' = [f \in AllFiles |-> IF f \in written THEN clock ELSE mtime[f]]
              /\ compilationCache' = [compilationCache EXCEPT ![p] = result]
              /\ req' = [req EXCEPT ![r].pc = "done", ![r].result = result,
                                     ![r].request = result.jsPath]
              /\ created' = created + 1
              /\ dirty' = [dirty EXCEPT ![p] = FALSE]
     ELSE /\ Fail(r, Rejection("wasm-bindgen", "", out))
          /\ UNCHANGED <<exists, mtime, compilationCache, created, dirty>>
  /\ UNCHANGED <<clock, unreadable, vanished, edits, options,
                 cargoTargetDirCache, hostVars, barrierVars>>

\* wasm-bindgen ends: it wrote index.js, index_bg.wasm and index.d.ts; the
\* result is stored in the cache and replaces the request.
BindgenExit(r, out) ==
  /\ req[r].pc = "bindgen"
  /\ events' = [events EXCEPT ![r] = Append(@, <<out>>)]
  /\ IF Succeeded(out)
     THEN LET p == req[r].p
              result == CompilationResult(CrateNameOf(r), created + 1)
              written == Artifacts(CrateNameOf(r))
          IN  /\ exists' = exists \cup written
              /\ packageJson' = WritePackageJson(CrateNameOf(r))
              /\ mtime' = [f \in AllFiles |-> IF f \in written THEN clock ELSE mtime[f]]
              /\ compilationCache' = [compilationCache EXCEPT ![p] = result]
              /\ req' = [req EXCEPT ![r].pc = "done", ![r].result = result,
                                     ![r].request = result.jsPath]
              /\ created' = created + 1
              /\ dirty' = [dirty EXCEPT ![p] = FALSE]
     ELSE /\ Fail(r, Rejection("wasm-bindgen", "", out))
          /\ UNCHANGED <<exists, mtime, packageJson, compilationCache, created, dirty>>
  /\ UNCHANGED <<clock, unreadable, vanished, edits, options,
                 cargoTargetDirCache, hostVars, barrierVars>>

\* reject(error) that replaces the error the promise was rejected with.
SettleRejectedAgain(r, error) == Fail(r, error)

\* reject(error) of spawnProcess's promise: it settles the promise the
\* request awaits, and does nothing to a promise that is settled.
SettleRejected(r, error) ==
  IF req[r].pc \in Awaiting THEN Fail(r, error) ELSE UNCHANGED req

\* The 'close' event of a process that could not be spawned, after its
\* 'error' event: the close handler rejects once more.
LateClose(r, out) ==
  /\ req[r] # Idle
  /\ events[r] # <<>>
  /\ events[r][Len(events[r])] = <<SpawnFailure>>
  /\ out.event = "close" /\ ~Succeeded(out)
  /\ events' = [events EXCEPT ![r][Len(events[r])] = Append(@, out)]
  /\ SettleRejected(r, Rejection(req[r].ran[Len(req[r].ran)], "", out))
  /\ UNCHANGED <<fsVars, options, compilationCache,
                 cargoTargetDirCache, created, dirty, hostVars, barrierVars>>

\* The handler's promise settles: the host takes the replaced request or
\* the error, and the invocation is over.
Deliver(r) ==
  /\ req[r] # Idle
  /\ req[r].pc \in Settled
  /\ req' = [req EXCEPT ![r] = Idle]
  /\ events' = [events EXCEPT ![r] = <<>>]
  /\ buildFailed' = IF req[r].pc = "failed" /\ "cargo build" \in Range(req[r].error)
                    THEN buildFailed \cup {req[r].c}
                    ELSE buildFailed
  /\ UNCHANGED <<fsVars, options, compilationCache,
                 cargoTargetDirCache, created, dirty, phase, own,
                 fileDependencies, contextDependencies, barrierVars>>

----------------------------------------------------------------------------
\* The host's compilations and the integration with the type checker.

RequestsOf(c) == {r \in Active : req[r].c = c}

\* The host creates a compilation object, of the plugin's compiler (o) or of
\* a child compiler; the taps on its compilation hook run before the host
\* creates another one.
NewCompilation(c, o) ==
  /\ phase[c] = "none"
  /\ \A d \in Compilations : d < c => phase[d] \notin {"none", "new"}
  /\ phase' = [phase EXCEPT ![c] = "new"]
  /\ own' = [own EXCEPT ![c] = o]
  /\ UNCHANGED <<fsVars, options, pluginVars, fileDependencies,
                 contextDependencies, buildFailed, barrierVars>>

\* createPromise: a new pending promise; of is the compilation it is made for.
CreatePromise(c) == Append(signal, [of |-> c, state |-> "pending"])

\* The two compilation taps: a promise for the compilation, and the known
\* Cargo.toml files and src directories as dependencies.
CompilationHook(c) ==
  /\ phase[c] = "new"
  /\ phase' = [phase EXCEPT ![c] = "make"]
  /\ IF own[c]
     THEN /\ signal' = CreatePromise(c)
          /\ resolveCalls' = Append(resolveCalls, 0)
          /\ compilationPromises' = [compilationPromises EXCEPT ![c] = Len(signal) + 1]
          /\ fileDependencies' = [fileDependencies EXCEPT ![c] =
               {CargoToml(p) : p \in {q \in Projects : compilationCache[q] # None}}]
          /\ contextDependencies' = [contextDependencies EXCEPT ![c] =
               {<<p, SrcDir>> : p \in {q \in Projects :
                   compilationCache[q] # None /\ SrcDirExists(q)}}]
     ELSE UNCHANGED <<signal, resolveCalls, compilationPromises, fileDependencies,
                      contextDependencies>>
  /\ UNCHANGED <<fsVars, options, pluginVars, own, buildFailed,
                 waiter, awaited>>

\* promise.resolve(null): settles a pending promise, does nothing to a settled one.
Resolve(s) ==
  [signal EXCEPT ![s].state = IF @ = "pending" THEN "resolved" ELSE @]

\* promise.reject(error): the plugin never calls it.
Reject(s) ==
  [signal EXCEPT ![s].state = IF @ = "pending" THEN "rejected" ELSE @]

\* afterCompile that rejects the promise of a compilation whose build failed.
AfterCompileRejectsOnFailure(c) ==
  /\ phase[c] = "make"
  /\ RequestsOf(c) = {}
  /\ phase' = [phase EXCEPT ![c] = "ended"]
  /\ IF own[c] /\ compilationPromises[c] # NoSignal
     THEN /\ signal' = IF c \in buildFailed
                       THEN Reject(compilationPromises[c])
                       ELSE Resolve(compilationPromises[c])
          /\ resolveCalls' = IF c \in buildFailed
                             THEN resolveCalls
                             ELSE [resolveCalls EXCEPT ![compilationPromises[c]] = @ + 1]
          /\ compilationPromises' = [compilationPromises EXCEPT ![c] = NoSignal]
     ELSE UNCHANGED <<signal, resolveCalls, compilationPromises>>
  /\ UNCHANGED <<fsVars, options, pluginVars, own, fileDependencies,
                 contextDependencies, buildFailed, waiter, awaited>>

\* afterCompile that leaves the promise of a compilation with a failed
\* request alone.
AfterCompileUnlessFailed(c) ==
  /\ phase[c] = "make"
  /\ RequestsOf(c) = {}
  /\ phase' = [phase EXCEPT ![c] = "ended"]
  /\ IF own[c] /\ compilationPromises[c] # NoSignal /\ c \notin buildFailed
     THEN /\ signal' = Resolve(compilationPromises[c])
          /\ resolveCalls' = [resolveCalls EXCEPT ![compilationPromises[c]] = @ + 1]
          /\ compilationPromises' = [compilationPromises EXCEPT ![c] = NoSignal]
     ELSE UNCHANGED <<signal, resolveCalls, compilationPromises>>
  /\ UNCHANGED <<fsVars, options, pluginVars, own, fileDependencies,
                 contextDependencies, buildFailed, waiter, awaited>>

\* afterCompile that deletes the entry before it looks the promise up.
AfterCompileDeleteFirst(c) ==
  /\ phase[c] = "make"
  /\ RequestsOf(c) = {}
  /\ phase' = [phase EXCEPT ![c] = "ended"]
  /\ IF own[c]
     THEN compilationPromises' = [compilationPromises EXCEPT ![c] = NoSignal]
     ELSE UNCHANGED compilationPromises
  /\ UNCHANGED <<fsVars, options, pluginVars, own, fileDependencies,
                 contextDependencies, buildFailed, signal, resolveCalls, waiter,
                 awaited>>

\* afterCompile that resolves the promise and leaves it in the table.
AfterCompileKeepsEntry(c) ==
  /\ phase[c] = "make"
  /\ RequestsOf(c) = {}
  /\ phase' = [phase EXCEPT ![c] = "ended"]
  /\ IF own[c] /\ compilationPromises[c] # NoSignal
     THEN /\ signal' = Resolve(compilationPromises[c])
          /\ resolveCalls' = [resolveCalls EXCEPT ![compilationPromises[c]] = @ + 1]
     ELSE UNCHANGED <<signal, resolveCalls>>
  /\ UNCHANGED <<fsVars, options, pluginVars, own, fileDependencies,
                 contextDependencies, buildFailed, compilationPromises, waiter,
                 awaited>>

\* afterCompile: the host calls it when every module request of the
\* compilation has settled and was delivered.
AfterCompile(c) ==
  /\ phase[c] = "make"
  /\ RequestsOf(c) = {}
  /\ phase' = [phase EXCEPT ![c] = "ended"]
  /\ IF own[c] /\ compilationPromises[c] # NoSignal
     THEN /\ signal' = Resolve(compilationPromises[c])
          /\ resolveCalls' = [resolveCalls EXCEPT ![compilationPromises[c]] = @ + 1]
          /\ compilationPromises' = [compilationPromises EXCEPT ![c] = NoSignal]
     ELSE UNCHANGED <<signal, resolveCalls, compilationPromises>>
  /\ UNCHANGED <<fsVars, options, pluginVars, own, fileDependencies,
                 contextDependencies, buildFailed, waiter, awaited>>

\* hooks.start that awaits the promise made last, whatever its compilation.
StartHookLatest(c) ==
  /\ phase[c] # "none"
  /\ own[c]
  /\ waiter[c] = "none"
  /\ awaited' = [awaited EXCEPT ![c] = Len(signal)]
  /\ waiter' = [waiter EXCEPT ![c] =
       IF Len(signal) = NoSignal THEN "resuming" ELSE "waiting"]
  /\ UNCHANGED <<fsVars, options, pluginVars, hostVars,
                 compilationPromises, signal, resolveCalls>>

\* hooks.start up to its await: the type checker asks to start for a
\* compilation of its compiler. Its tap on the compilation hook runs before
\* this plugin's when it was registered first (phase "new"), after it
\* otherwise.
StartHookFor(c) ==
  /\ phase[c] # "none"
  /\ waiter[c] = "none"
  /\ awaited' = [awaited EXCEPT ![c] = compilationPromises[c]]
  /\ waiter' = [waiter EXCEPT ![c] =
       IF compilationPromises[c] = NoSignal THEN "resuming" ELSE "waiting"]
  /\ UNCHANGED <<fsVars, options, pluginVars, hostVars,
                 compilationPromises, signal, resolveCalls>>

\* The start hook called for a compilation of the plugin's compiler.
StartHook(c) == own[c] /\ StartHookFor(c)

\* hooks.start after its await: callback() when there was nothing to await or
\* the promise was resolved, callback(error) when it was rejected. throws
\* tells whether the type checker's callback throws: an exception of
\* callback() is caught by the catch around it, which calls callback(error);
\* an exception of callback(error) leaves the handler.
StartResumeWith(c, throws) ==
  /\ \/ waiter[c] = "resuming"
     \/ waiter[c] = "waiting" /\ signal[awaited[c]].state # "pending"
  /\ waiter' = [waiter EXCEPT ![c] =
       IF waiter[c] = "waiting" /\ signal[awaited[c]].state = "rejected"
       THEN "calledWithError"
       ELSE IF throws THEN "calledTwice"
       ELSE "called"]
  /\ UNCHANGED <<fsVars, options, pluginVars, hostVars,
                 compilationPromises, signal, resolveCalls, awaited>>

\* The start hook of a type checker whose callback returns.
StartResume(c) == StartResumeWith(c, FALSE)

----------------------------------------------------------------------------
\* The user and the clock.

\* Time passes, up to the time max.
TickUntil(max) ==
  /\ clock < max
  /\ clock' = clock + 1
  /\ UNCHANGED <<exists, mtime, packageJson, unreadable, vanished, edits, options,
                 pluginVars, hostVars, barrierVars>>

ProjectOf(f) ==
  CHOOSE p \in Projects : f \in ProjectFiles(p) \cup Artifacts(CrateName(p))

Tick == TickUntil(MaxClock)

\* The user writes a file: its mtime becomes the current time.
Touch(f) ==
  /\ edits < MaxEdits
  /\ f \in exists
  /\ mtime' = [mtime EXCEPT ![f] = clock]
  /\ edits' = edits + 1
  /\ dirty' = [dirty EXCEPT ![ProjectOf(f)] = TRUE]
  /\ UNCHANGED <<clock, exists, packageJson, unreadable, vanished, options,
                 compilationCache, cargoTargetDirCache, req, events, created,
                 hostVars, barrierVars>>

Deletable == UNION {Artifacts(CrateName(p)) \cup {LibRs(p)} : p \in Edited}

\* The user removes an artifact or lib.rs.
Delete(f) ==
  /\ edits < MaxEdits
  /\ f \in exists
  /\ exists' = exists \ {f}
  /\ UNCHANGED packageJson
  /\ mtime' = [mtime EXCEPT ![f] = 0]
  /\ edits' = edits + 1
  /\ dirty' = [dirty EXCEPT ![ProjectOf(f)] = TRUE]
  /\ UNCHANGED <<clock, unreadable, vanished, options,
                 compilationCache, cargoTargetDirCache, req, events, created,
                 hostVars, barrierVars>>

\* The files of project p a staleness check stats after fs.existsSync or
\* fs.readdirSync has seen them.
Vanishing(p) == {JsPath(CrateName(p))} \cup {f \in SrcFiles(p) : EndsWithRs(f)}

\* The user removes a file while the handler of a request for its project is
\* on its way to the staleness check: the check sees the file and fails to
\* stat it.
Vanish(f) ==
  /\ edits < MaxEdits
  /\ f \in exists \ vanished
  /\ \E r \in Active : req[r].pc = "manifest" /\ req[r].p = ProjectOf(f)
  /\ vanished' = vanished \cup {f}
  /\ edits' = edits + 1
  /\ dirty' = [dirty EXCEPT ![ProjectOf(f)] = TRUE]
  /\ UNCHANGED <<clock, exists, mtime, packageJson, unreadable, options,
                 compilationCache, cargoTargetDirCache, req, events, created,
                 hostVars, barrierVars>>

\* chmod of a directory of the source tree: readable <-> unreadable.
Chmod(p, dir) ==
  /\ edits < MaxEdits
  /\ unreadable' = IF <<p, dir>> \in unreadable
                   THEN unreadable \ {<<p, dir>>}
                   ELSE unreadable \cup {<<p, dir>>}
  /\ edits' = edits + 1
  /\ UNCHANGED <<clock, exists, mtime, packageJson, vanished, options,
                 pluginVars, hostVars, barrierVars>>

----------------------------------------------------------------------------
Init ==
  /\ clock = 0
  /\ exists = UNION {ProjectFiles(p) : p \in Projects}
  /\ mtime = [f \in AllFiles |-> 0]
  /\ packageJson = [d \in OutputDirs |-> None]
  /\ unreadable = {}
  /\ vanished = {}
  /\ edits = 0
  /\ optimizeWebassembly \in BOOLEAN
  /\ cargoArgs \in CargoArgsChoices
  /\ compilationCache = [p \in Projects |-> None]
  /\ cargoTargetDirCache = [p \in Projects |-> NotMemoized]
  /\ req = [r \in Requests |-> Idle]
  /\ events = [r \in Requests |-> <<>>]
  /\ created = 0
  /\ phase = [c \in Compilations |-> "none"]
  /\ own = [c \in Compilations |-> TRUE]
  /\ fileDependencies = [c \in Compilations |-> {}]
  /\ contextDependencies = [c \in Compilations |-> {}]
  /\ compilationPromises = [c \in Compilations |-> NoSignal]
  /\ signal = <<>>
  /\ resolveCalls = <<>>
  /\ waiter = [c \in Compilations |-> "none"]
  /\ awaited = [c \in Compilations |-> NoSignal]
  /\ dirty = [p \in Projects |-> FALSE]
  /\ buildFailed = {}

\* A child process of request r ends, or the host takes the settled request.
ProcessExitWith(r, manifests) ==
  \/ \E out \in ManifestOutcomes(manifests) : ManifestExit(r, out)
  \/ \E out \in MetadataOutcomes(req[r].p) : MetadataExit(r, out)
  \/ \E out \in Outcomes : BuildExit(r, out)
  \/ \E out \in Outcomes : OptExit(r, out)
  \/ \E out \in Outcomes : BindgenExit(r, out)
  \/ \E out \in ClosesAfterError : LateClose(r, out)
  \/ Deliver(r)

ProcessExitOf(r) == ProcessExitWith(r, Manifests(req[r].p))

ProcessExit == \E r \in Active : ProcessExitOf(r)

\* The host asks to resolve a module request of one of the compilations cs,
\* in the crate directory of one of the projects ps.
ResolveRequestWithin(builds, cs, ps) ==
  /\ created < builds
  /\ \E r \in Requests, c \in cs, p \in ps, lib \in BOOLEAN :
       BeforeResolve(r, c, p, lib)

ResolveRequest(cs, ps) == ResolveRequestWithin(MaxBuilds, cs, ps)

Host ==
  \/ \E c \in Compilations, o \in BOOLEAN : NewCompilation(c, o)
  \/ \E c \in Compilations : CompilationHook(c)
  \/ \E c \in Compilations : AfterCompile(c)

Checker ==
  \/ \E c \in Compilations : StartHook(c)
  \/ \E c \in Compilations : StartResume(c)

User ==
  \/ Tick
  \/ \E f \in UNION {ProjectFiles(p) : p \in Edited} : Touch(f)
  \/ \E f \in Deletable : Delete(f)
  \/ \E p \in Edited, d \in SrcDirs : Chmod(p, d)

Next == Host \/ ResolveRequest(Compilations, Projects) \/ ProcessExit \/ Checker \/ User

Spec == Init /\ [][Next]_vars

\* The plugin constructed without cargoArgs.
DefaultInit == Init /\ cargoArgs = DefaultCargoArgs

\* The cache and the pipeline: the requests of one compilation, while the
\* user changes files.
CacheNext ==
  \/ NewCompilation(1, TRUE)
  \/ CompilationHook(1)
  \/ Active = {} /\ ResolveRequest({1}, Edited)
  \/ ProcessExit
  \/ User

CacheSpec == DefaultInit /\ [][CacheNext]_vars

\* The promise per compilation and the type checker's start hook, with the
\* file system left alone.
BarrierNext ==
  \/ Host
  \/ Active = {} /\ ResolveRequest(Compilations, Edited)
  \/ ProcessExit
  \/ Checker
  \/ \E p \in Edited : Delete(LibRs(p))

\* The plugin constructed without options.
BarrierInit == DefaultInit /\ ~optimizeWebassembly

BarrierSpec == BarrierInit /\ [][BarrierNext]_vars

\* The requests of one compilation for both projects, resolved concurrently,
\* with the file system left alone.
ConcurrentNext ==
  \/ NewCompilation(1, TRUE)
  \/ CompilationHook(1)
  \/ ResolveRequest({1}, Projects)
  \/ ProcessExit

ConcurrentSpec == DefaultInit /\ [][ConcurrentNext]_vars

\* The requests of one compilation, one after the other, for a crate with any
\* of the manifests.
ManifestNext ==
  \/ NewCompilation(1, TRUE)
  \/ CompilationHook(1)
  \/ Active = {} /\ ResolveRequest({1}, Edited)
  \/ \E r \in Active : ProcessExitWith(r, AnyManifests(req[r].p))

ManifestSpec == DefaultInit /\ [][ManifestNext]_vars

\* The requests of one compilation, one after the other, of a plugin
\* constructed with any of the cargoArgs.
ArtifactNext ==
  \/ NewCompilation(1, TRUE)
  \/ CompilationHook(1)
  \/ Active = {} /\ ResolveRequest({1}, Edited)
  \/ ProcessExit

ArtifactSpec == Init /\ [][ArtifactNext]_vars

\* The requests of one compilation, one after the other, while the user
\* removes Cargo.toml, or a file the staleness check is about to stat.
RaceNext ==
  \/ NewCompilation(1, TRUE)
  \/ CompilationHook(1)
  \/ Active = {} /\ ResolveRequest({1}, Edited)
  \/ ProcessExit
  \/ \E p \in Edited : Delete(CargoToml(p))
  \/ \E p \in Edited : \E f \in Vanishing(p) : Vanish(f)

RaceSpec == DefaultInit /\ [][RaceNext]_vars

\* The requests of one compilation, one after the other, while the user
\* writes files: long enough for a build, a change, a rebuild and the request
\* that follows it.
SequenceNext ==
  \/ NewCompilation(1, TRUE)
  \/ CompilationHook(1)
  \/ Active = {} /\ ResolveRequestWithin(SequenceBuilds, {1}, Edited)
  \/ ProcessExit
  \/ TickUntil(SequenceClock)
  \/ \E p \in Edited : \E f \in ProjectFiles(p) : Touch(f)

SequenceSpec == BarrierInit /\ [][SequenceNext]_vars

\* The requests of one compilation, one after the other, for two crates with
\* any of the manifests.
CratesNext ==
  \/ NewCompilation(1, TRUE)
  \/ CompilationHook(1)
  \/ Active = {} /\ ResolveRequest({1}, Projects)
  \/ \E r \in Active : ProcessExitWith(r, AnyManifests(req[r].p))

CratesSpec == BarrierInit /\ [][CratesNext]_vars

\* The compilations of the host, of the plugin's compiler and of others, and
\* a type checker that asks to start for any of them.
TableNext ==
  \/ Host
  \/ Active = {} /\ ResolveRequest(Compilations, Edited)
  \/ ProcessExit
  \/ \E c \in Compilations : StartHookFor(c)
  \/ \E c \in Compilations : StartResume(c)

TableSpec == BarrierInit /\ [][TableNext]_vars

\* The compilations of the host and a type checker whose callback may throw.
CallbackNext ==
  \/ Host
  \/ Active = {} /\ ResolveRequest(Compilations, Edited)
  \/ ProcessExit
  \/ \E c \in Compilations : StartHook(c)
  \/ \E c \in Compilations, throws \in BOOLEAN : StartResumeWith(c, throws)

CallbackSpec == BarrierInit /\ [][CallbackNext]_vars

\* The processes of the requests for project p end and the host takes these
\* requests; nothing is assumed of the requests for another project, whose
\* processes may run forever.
FairFor(p) ==
  \A r \in Requests :
    WF_vars(req[r] # Idle /\ req[r].p = p /\ ProcessExitOf(r))

FairConcurrentSpec == DefaultInit /\ [][ConcurrentNext]_vars /\ FairFor("p2")

\* The host runs the compilation hook of a compilation it created and ends
\* every compilation, however many requests it resolves in it; a spawned
\* process ends and the settled handler is taken by the host; the
\* continuation of the start hook runs once it can.
BarrierFairness ==
  /\ WF_vars(ProcessExit)
  /\ \A c \in Compilations :
       /\ WF_vars(CompilationHook(c))
       /\ SF_vars(AfterCompile(c))
       /\ WF_vars(StartResume(c))

FairBarrierSpec == BarrierInit /\ [][BarrierNext]_vars /\ BarrierFairness

----------------------------------------------------------------------------
\* Properties of the cache (CacheSpec).

\* Request r's handler got the manifest and went through the cache lookup of
\* compileRustCrate in this step.
LooksUp(r) ==
  /\ req[r].pc = "manifest"
  /\ req'[r].pc \notin {"manifest", "failed"}

Entry(r) == compilationCache[req[r].p]
Bridge(r) == Entry(r).jsPath

\* The .rs files that exist in the source tree of p, at any depth.
RustSources(p) == {f \in SrcFiles(p) \cap exists : f.ext = "rs"}

Readable(p) == \A d \in SrcDirs : <<p, d>> \notin unreadable

ArtifactsExist(e) == {e.jsPath, e.wasmPath, e.dtsPath} \subseteq exists

\* What the claims call a valid entry: the artifacts exist, and neither the
\* descriptor nor the newest source file is newer than the bridge module.
UpToDate(p, e) ==
  /\ ArtifactsExist(e)
  /\ CargoToml(p) \in exists /\ mtime[CargoToml(p)] <= mtime[e.jsPath]
  /\ \A f \in RustSources(p) : mtime[f] <= mtime[e.jsPath]

C3_AnyFileUnderSrc ==
  [][\A r \in Requests :
       (LooksUp(r) /\ Entry(r) # None
          /\ \E f \in SrcFiles(req[r].p) \cap exists : mtime[f] > mtime[Bridge(r)])
       => req'[r].lookup = "stale"]_vars

\* C3, amended: a request finding an .rs file of the source tree, at any
\* depth, newer than the bridge module rebuilds; with the entry up to date
\* and the tree readable it does not rebuild, whatever the mtimes of the
\* other files (those outside the tree, and those in it that are no .rs file).
C3_RustFileUnderSrc ==
  [][\A r \in Requests :
       (LooksUp(r) /\ Entry(r) # None) =>
         /\ (\E f \in RustSources(req[r].p) : mtime[f] > mtime[Bridge(r)])
              => /\ req'[r].lookup = "stale"
                 /\ req'[r].pc = "build"
                 /\ req'[r].ran = <<"cargo read-manifest", "cargo build">>
         /\ (UpToDate(req[r].p, Entry(r)) /\ Readable(req[r].p))
              => req'[r].lookup = "hit"]_vars

\* A rebuild after only the nested src/sub/mod.rs was touched.
C3_Witness ==
  \E r \in Active :
    LET p == req[r].p
        nested == File(<<"crateDir", p>>, "src/sub", "mod", "rs")
    IN  /\ req[r].lookup = "stale" /\ req[r].pc = "build"
        /\ edits = 1 /\ unreadable = {}
        /\ ArtifactsExist(Entry(r))
        /\ mtime[nested] > mtime[Bridge(r)]
        /\ \A f \in ProjectFiles(p) \ {nested} : mtime[f] <= mtime[Bridge(r)]

\* C4: a request finding Cargo.toml newer than the bridge module does not
\* return the cached entry: it spawns cargo build; and every request that
\* ends without a hit ran compile, optimize when enabled, and bind, in order.
C4_DescriptorChangeRebuilds ==
  /\ [][\A r \in Requests :
          (LooksUp(r) /\ Entry(r) # None
             /\ mtime[CargoToml(req[r].p)] > mtime[Bridge(r)])
          => /\ req'[r].lookup = "stale"
             /\ req'[r].pc = "build"
             /\ req'[r].ran = <<"cargo read-manifest", "cargo build">>]_vars
  /\ [](\A r \in Active :
          (req[r].pc = "done" /\ req[r].lookup = "stale")
          => req[r].ran = <<"cargo read-manifest", "cargo build">>
                 \o (IF optimizeWebassembly THEN <<"wasm-opt">> ELSE <<>>)
                 \o <<"wasm-bindgen">>)

\* A finished rebuild after only Cargo.toml was touched.
C4_Witness ==
  \E r \in Active :
    LET p == req[r].p
    IN  /\ req[r].pc = "done" /\ req[r].lookup = "stale"
        /\ edits = 1 /\ mtime[CargoToml(p)] > 0
        /\ req[r].result = Entry(r) /\ Entry(r).obj = 2

\* C5: a request finding one of the entry's artifacts missing rebuilds,
\* whatever the mtimes.
C5_ArtifactDeletionRebuilds ==
  [][\A r \in Requests :
       (LooksUp(r) /\ Entry(r) # None /\ ~ArtifactsExist(Entry(r)))
       => /\ req'[r].lookup = "stale"
          /\ req'[r].pc = "build"]_vars

\* A rebuild after only index.d.ts was deleted, with all mtimes consistent.
C5_Witness ==
  \E r \in Active :
    /\ req[r].lookup = "stale" /\ req[r].pc = "build"
    /\ edits = 1 /\ Entry(r).dtsPath \notin exists
    /\ {Entry(r).jsPath, Entry(r).wasmPath} \subseteq exists
    /\ \A f \in ProjectFiles(req[r].p) : mtime[f] <= mtime[Bridge(r)]

----------------------------------------------------------------------------
\* Properties of the promise per compilation (BarrierSpec, FairBarrierSpec).

SignalsOf(c) == {s \in DOMAIN signal : signal[s].of = c}
Called == {"called", "calledWithError"}

\* The start hook of c awaited a promise and its callback was invoked.
Unblocked(c) == awaited[c] # NoSignal /\ waiter[c] \in Called

\* C6, as stated: a start hook that waited on the promise of a compilation
\* whose cargo build failed is called back with a failure indication.
C6_FailureIndication ==
  \A c \in Compilations :
    (c \in buildFailed /\ Unblocked(c)) => waiter[c] = "calledWithError"

\* C6, amended: when cargo build failed in a compilation, a start hook
\* waiting on the compilation's promise is eventually unblocked by the
\* resolved promise, and its callback is invoked without an error: the
\* failure is not passed on through the promise.
C6_ReleasedWithoutError ==
  \A c \in Compilations :
    (c \in buildFailed /\ waiter[c] = "waiting")
      ~> (/\ Unblocked(c) /\ waiter[c] = "called"
          /\ signal[awaited[c]].state = "resolved")

C6_Witness ==
  \E c \in Compilations :
    /\ c \in buildFailed /\ Unblocked(c)
    /\ waiter[c] = "called" /\ signal[awaited[c]].state = "resolved"

\* C7: whatever happens to the requests of a compilation (none, a pass, a
\* hit, a build, a failure at any step), a start hook waiting on the
\* compilation's promise is eventually called back, given that the host ends
\* the compilation.
C7_WaiterEventuallyCalled ==
  \A c \in Compilations : (waiter[c] = "waiting") ~> (waiter[c] \in Called)

\* A start hook that waited and was called back in a compilation that ended
\* with lib.rs missing and nothing ever built.
C7_Witness ==
  \E c \in Compilations :
    /\ Unblocked(c) /\ phase[c] = "ended"
    /\ created = 0 /\ cargoTargetDirCache = [p \in Projects |-> NotMemoized]
    /\ \E p \in Projects : LibRs(p) \notin exists

\* C8: a compilation of the plugin's compiler has one promise; it is pending
\* with no call of resolve while the compilation runs, resolved by exactly one
\* call of resolve once the compilation ended, and a resolved promise stays
\* resolved.
C8_ReleasedExactlyOnce ==
  /\ [](\A c \in Compilations :
          /\ Cardinality(SignalsOf(c)) <= 1
          /\ (own[c] /\ phase[c] = "make") =>
                \E s \in SignalsOf(c) :
                  signal[s].state = "pending" /\ resolveCalls[s] = 0
          /\ (own[c] /\ phase[c] = "ended") =>
                \E s \in SignalsOf(c) :
                  signal[s].state = "resolved" /\ resolveCalls[s] = 1)
  /\ [][\A s \in DOMAIN signal :
          signal[s].state = "resolved" => signal'[s].state = "resolved"]_vars

\* Both compilations ended, each with its promise resolved by one call.
C8_Witness ==
  \A c \in Compilations :
    /\ own[c] /\ phase[c] = "ended"
    /\ \E s \in SignalsOf(c) : signal[s].state = "resolved" /\ resolveCalls[s] = 1

\* C9: the callback of the start hook for a compilation of the plugin's
\* compiler is never invoked while the promise of that compilation is pending.
C9_NeverStartsEarly ==
  [][\A c \in Compilations :
       (own[c] /\ waiter[c] \notin Called /\ waiter'[c] \in Called)
       => \A s \in SignalsOf(c) : signal[s].state # "pending"]_vars

\* C10: the promise a compilation has in the table, and the one its start
\* hook awaits, is the one made for that compilation and for no other; a
\* step settles one promise at most; and a waiting start hook is unblocked
\* only by the promise of its own compilation.
C10_PerCycleSignals ==
  /\ [](\A c \in Compilations :
          /\ compilationPromises[c] # NoSignal =>
                SignalsOf(c) = {compilationPromises[c]}
          /\ awaited[c] # NoSignal => SignalsOf(c) = {awaited[c]})
  /\ [][\A s, t \in DOMAIN signal :
          (s # t /\ signal'[s].state # signal[s].state)
          => signal'[t].state = signal[t].state]_vars
  /\ [][\A c \in Compilations :
          (waiter[c] = "waiting" /\ waiter'[c] \in Called)
          => /\ signal[awaited[c]].of = c
             /\ signal[awaited[c]].state # "pending"]_vars

\* The start hook of one compilation still waits on its pending promise
\* after the promise of the other was resolved and its start hook called.
C10_Witness ==
  \E a, b \in Compilations :
    /\ a # b
    /\ waiter[a] = "waiting" /\ signal[awaited[a]].state = "pending"
    /\ Unblocked(b) /\ signal[awaited[b]].state = "resolved"

----------------------------------------------------------------------------
\* Properties of the pipeline (CacheSpec).

Last(seq) == seq[Len(seq)]
IsPrefix(a, b) == Len(a) <= Len(b) /\ \A i \in DOMAIN a : a[i] = b[i]

\* The steps of the pipeline as the claims order them.
Steps ==
  <<"cargo build">> \o (IF optimizeWebassembly THEN <<"wasm-opt">> ELSE <<>>)
    \o <<"wasm-bindgen">>

\* ran without the queries before the pipeline.
StepsRan(r) ==
  SelectSeq(req[r].ran, LAMBDA x : x \notin {"cargo read-manifest", "cargo metadata"})

\* The first event of each process request r spawned, in the order of the
\* spawns.
Ended(r) == [i \in DOMAIN events[r] |-> events[r][i][1]]

\* The Error of a process that ended with out, as the claims name it: by
\* the step, with the exit code and the text of stderr, or as a spawn error.
StepError(step, out) ==
  IF out.event = "error"
  THEN <<"Failed to spawn", step, out.message>>
  ELSE <<step, "failed with exit code", out.code, out.stderr>>

\* C11: the steps a request has spawned are the first steps of cargo build,
\* wasm-opt when optimization is on, wasm-bindgen, in that order; every
\* process of the request but the one spawned last has closed with exit code
\* 0, so that at most one process of the request runs at any time.
C11_StepsInOrder ==
  \A r \in Active :
    /\ IsPrefix(StepsRan(r), Steps)
    /\ Len(Ended(r)) \in {Len(req[r].ran) - 1, Len(req[r].ran)}
    /\ \A i \in DOMAIN req[r].ran : i < Len(req[r].ran) => Succeeded(Ended(r)[i])

\* A request that went through cargo build, wasm-opt and wasm-bindgen.
C11_Witness ==
  \E r \in Active :
    /\ req[r].pc = "done" /\ optimizeWebassembly
    /\ StepsRan(r) = <<"cargo build", "wasm-opt", "wasm-bindgen">>
    /\ \A i \in DOMAIN Ended(r) : Succeeded(Ended(r)[i])

\* C12: when a process of a request exits with a code other than 0 or cannot
\* be spawned, it is the last process the request spawns, the request fails
\* with the error of that step, and the failed request spawns nothing more.
C12_AbortOnFailure ==
  /\ [](\A r \in Active :
          (\E i \in DOMAIN Ended(r) : ~Succeeded(Ended(r)[i]))
          => /\ req[r].pc = "failed"
             /\ Len(Ended(r)) = Len(req[r].ran)
             /\ ~Succeeded(Last(Ended(r)))
             /\ req[r].error = StepError(Last(req[r].ran), Last(Ended(r))))
  /\ [][\A r \in Requests :
          (req[r] # Idle /\ req[r].pc = "failed")
          => (req'[r] = Idle \/ req'[r] = req[r])]_vars

\* A request that failed at cargo build, before wasm-opt and wasm-bindgen.
C12_Witness ==
  \E r \in Active :
    /\ req[r].pc = "failed" /\ optimizeWebassembly
    /\ events[r] # <<>>
    /\ Last(req[r].ran) = "cargo build"
    /\ Last(Ended(r)) = Close("1", NoOutput, "error: could not compile")

\* C13: compilationCache changes only in the step in which wasm-bindgen
\* closes with exit code 0 for a request, and then only the entry of that
\* request's crate, which becomes the request's result; a step in which a
\* request fails leaves the whole cache as it was.
C13_CacheChangesOnlyOnSuccess ==
  /\ [][\A p \in Projects :
          compilationCache'[p] # compilationCache[p]
          => \E r \in Requests :
               /\ req[r] # Idle /\ req[r].p = p /\ req[r].pc = "bindgen"
               /\ req'[r].pc = "done"
               /\ Succeeded(Last(events'[r])[1])
               /\ compilationCache'[p] = req'[r].result]_vars
  /\ [][\A r \in Requests :
          (req[r] # Idle /\ req'[r] # Idle /\ req[r].pc # "failed"
             /\ req'[r].pc = "failed")
          => compilationCache' = compilationCache]_vars

\* A rebuild of a stale entry failed at wasm-bindgen and the entry is still
\* the one of the first build.
C13_Witness ==
  \E r \in Active :
    /\ req[r].pc = "failed" /\ req[r].lookup = "stale"
    /\ events[r] # <<>>
    /\ Last(req[r].ran) = "wasm-bindgen"
    /\ Entry(r) # None /\ Entry(r).obj = 1

\* C18: a request spawns each command at most once, and a request a process
\* of which failed has failed with the error of that process and can only be
\* taken by the host, with that error.
C18_NoRetry ==
  /\ [](\A r \in Active :
          /\ \A i, j \in DOMAIN req[r].ran : req[r].ran[i] = req[r].ran[j] => i = j
          /\ (\E i \in DOMAIN Ended(r) : ~Succeeded(Ended(r)[i]))
             => /\ req[r].pc = "failed"
                /\ req[r].error = StepError(Last(req[r].ran), Last(Ended(r)))
                /\ req[r].pc \in Settled)
  /\ [][\A r \in Requests :
          (req[r] # Idle /\ req[r].pc = "failed" /\ req'[r] # Idle)
          => req'[r].error = req[r].error /\ req'[r].ran = req[r].ran]_vars

\* A request that failed at cargo metadata, run once.
C18_Witness ==
  \E r \in Active :
    /\ req[r].pc = "failed"
    /\ req[r].ran = <<"cargo read-manifest", "cargo metadata">>
    /\ Len(Ended(r)) = 2 /\ ~Succeeded(Ended(r)[2])

\* C19: the error of a request whose wasm-opt exited with a code other than
\* 0 names wasm-opt and holds that exit code and what wasm-opt wrote to
\* stderr; it is the error of no cargo build, however that ended.
C19_OptimizerErrorAttributed ==
  \A r \in Active :
    (/\ events[r] # <<>>
     /\ Last(req[r].ran) = "wasm-opt" /\ Len(Ended(r)) = Len(req[r].ran)
     /\ Last(Ended(r)).event = "close" /\ ~Succeeded(Last(Ended(r))))
    => /\ req[r].pc = "failed"
       /\ req[r].error = <<"wasm-opt", "failed with exit code",
                           Last(Ended(r)).code, Last(Ended(r)).stderr>>
       /\ \A out \in Outcomes : req[r].error # Rejection("cargo", "cargo build", out)

C19_Witness ==
  \E r \in Active :
    /\ req[r].pc = "failed" /\ events[r] # <<>>
    /\ Last(req[r].ran) = "wasm-opt"
    /\ Last(Ended(r)) = Close("1", NoOutput, "error: could not compile")
    /\ req[r].error[4] = "error: could not compile"

\* C20: a request a process of which could not be spawned has failed with
\* the spawn error of that process, which is no exit-code error, also after
\* the 'close' event of that process; the error a request failed with never
\* changes.
C20_SpawnErrorWins ==
  /\ [](\A r \in Active :
          (\E i \in DOMAIN events[r] : events[r][i][1].event = "error")
          => /\ req[r].pc = "failed"
             /\ req[r].error = <<"Failed to spawn", Last(req[r].ran), SpawnFailure.message>>
             /\ \A out \in Outcomes \cup ClosesAfterError :
                  out.event = "close" =>
                    req[r].error # StepError(Last(req[r].ran), out))
  /\ [][\A r \in Requests :
          (req[r] # Idle /\ req[r].pc = "failed" /\ req'[r] # Idle)
          => req'[r].pc = "failed" /\ req'[r].error = req[r].error]_vars

\* The 'close' event came after the 'error' event of wasm-bindgen.
C20_Witness ==
  \E r \in Active :
    /\ req[r].pc = "failed" /\ events[r] # <<>>
    /\ Last(req[r].ran) = "wasm-bindgen"
    /\ Len(Last(events[r])) = 2
    /\ Last(events[r])[2].event = "close"
    /\ req[r].error[1] = "Failed to spawn"

----------------------------------------------------------------------------
\* Properties of the cache under concurrent requests (ConcurrentSpec) and of
\* the watch dependencies.

\* Request r got the result of wasm-bindgen in this step.
Stores(r) == req[r] # Idle /\ req[r].pc = "bindgen" /\ req'[r].pc = "done"

\* C14: the step in which wasm-bindgen closes with exit code 0 for a request
\* makes the request's new result the entry of its crate, whether the crate
\* had an entry or not, and leaves the entries of the other crates as they
\* were; a request that then hits the cache gets the entry the cache holds.
C14_StoreReplaces ==
  /\ [][\A r \in Requests :
          Stores(r) =>
            /\ compilationCache'[req[r].p] = req'[r].result
            /\ req'[r].result.obj = created + 1
            /\ compilationCache'[req[r].p] # compilationCache[req[r].p]
            /\ \A q \in Projects \ {req[r].p} :
                 compilationCache'[q] = compilationCache[q]]_vars
  /\ [][\A r \in Requests :
          (LooksUp(r) /\ req'[r].lookup = "hit")
          => req'[r].result = compilationCache[req[r].p]]_vars

\* Both crates have an entry and neither is the result of the first build:
\* that one was replaced.
C14_Witness ==
  \E p, q \in Projects :
    /\ p # q
    /\ compilationCache[p] # None /\ compilationCache[q] # None
    /\ compilationCache[p].obj > 1 /\ compilationCache[q].obj > 1

\* C15: a request that ended with the bridge module of its crate, by a hit or
\* by a build, belongs to a compilation that has the crate's Cargo.toml in
\* its fileDependencies and the crate's src in its contextDependencies.
C15_WatchedWhateverTheOutcome ==
  \A r \in Active :
    req[r].pc = "done" =>
      /\ CargoToml(req[r].p) \in fileDependencies[req[r].c]
      /\ <<req[r].p, SrcDir>> \in contextDependencies[req[r].c]

\* C16: a request that finds no entry for its crate goes into the pipeline,
\* whatever the other requests in flight are doing: two requests for a crate
\* without an entry both run cargo build and wasm-bindgen.
C16_NoDeduplication ==
  [][\A r \in Requests :
       (LooksUp(r) /\ Entry(r) = None)
       => /\ req'[r].lookup = "miss"
          /\ req'[r].pc \in {"metadata", "build"}
          /\ Len(req'[r].ran) = 2]_vars

\* Two requests for the same crate, both after a miss, both with cargo build
\* done and wasm-bindgen running, and still no entry for the crate.
C16_Witness ==
  \E r, q \in Active :
    /\ r # q /\ req[r].p = req[q].p
    /\ compilationCache[req[r].p] = None /\ created = 0
    /\ \A x \in {r, q} :
         /\ req[x].lookup = "miss" /\ req[x].pc = "bindgen"
         /\ "cargo build" \in Range(req[x].ran)

\* C17: a step of a request changes no other request and no entry of another
\* crate; and a request for one crate settles when its processes end, also
\* while a process of a request for the other crate never ends.
C17_Isolation ==
  /\ [][\A r \in Requests :
          (req[r] # Idle /\ req'[r] # req[r])
          => /\ \A q \in Requests \ {r} :
                  req[q] # Idle => (req'[q] = req[q] /\ events'[q] = events[q])
             /\ \A p \in Projects \ {req[r].p} :
                  compilationCache'[p] = compilationCache[p]]_vars
  /\ \A r \in Requests :
       (req[r] # Idle /\ req[r].p = "p2") ~> (req[r] = Idle)

\* The request for p2 went through its pipeline and stored its result while
\* the cargo read-manifest of the earlier request for p1 has not ended.
C17_Witness ==
  \E a, b \in Active :
    /\ a < b
    /\ req[a].p = "p1" /\ req[a].pc = "manifest" /\ events[a] = <<>>
    /\ req[b].p = "p2" /\ req[b].pc = "done" /\ req[b].lookup = "miss"
    /\ compilationCache["p2"] = req[b].result
    /\ compilationCache["p1"] = None

----------------------------------------------------------------------------
\* Properties of the manifest and of the target directory.

\* The manifest cargo read-manifest printed for request r.
ManifestOf(r) == events[r][1][1].stdout.value

\* cargo read-manifest of request r closed with exit code 0.
GotManifest(r) ==
  /\ req[r] # Idle /\ events[r] # <<>>
  /\ req[r].ran # <<>> /\ req[r].ran[1] = "cargo read-manifest"
  /\ Succeeded(events[r][1][1])

\* name is the name of the first cdylib target of the manifest.
FirstCdylib(manifest, name) ==
  \E i \in DOMAIN manifest.targets :
    /\ "cdylib" \in manifest.targets[i].crate_types
    /\ manifest.targets[i].name = name
    /\ \A j \in 1..(i - 1) : "cdylib" \notin manifest.targets[j].crate_types

HasCdylib(manifest) ==
  \E i \in DOMAIN manifest.targets : "cdylib" \in manifest.targets[i].crate_types

\* C21: a request whose manifest has a cdylib target goes on with the crate
\* of the manifest path and the name of the first such target: wasm-bindgen
\* gets the output directory of that name and the result is stored under the
\* manifest's Cargo.toml with the artifacts of that name. A request whose
\* manifest has none fails with an error that names cdylib, has spawned
\* nothing but cargo read-manifest, and the step in which it fails changes
\* neither compilationCache nor cargoTargetDirCache.
C21_ManifestResolver ==
  /\ [](\A r \in Requests :
          GotManifest(r) =>
            IF HasCdylib(ManifestOf(r))
            THEN /\ ManifestOf(r).manifest_path = CargoToml(req[r].p)
                 /\ req[r].pc = "bindgen" =>
                      \E name \in TargetNames :
                        /\ FirstCdylib(ManifestOf(r), name)
                        /\ Args(r, "wasm-bindgen")[2] = OutputDir(name)
                 /\ (req[r].pc = "done" /\ req[r].lookup # "hit") =>
                      \E name \in TargetNames :
                        /\ FirstCdylib(ManifestOf(r), name)
                        /\ req[r].result.jsPath = JsPath(name)
                        /\ compilationCache[req[r].p] = req[r].result
            ELSE /\ req[r].pc = "failed"
                 /\ "cdylib" \in Range(req[r].error)
                 /\ req[r].ran = <<"cargo read-manifest">>)
  /\ [][\A r \in Requests :
          (req[r] # Idle /\ req[r].pc = "manifest" /\ req'[r].pc = "failed")
          => /\ compilationCache' = compilationCache
             /\ cargoTargetDirCache' = cargoTargetDirCache]_vars

\* A manifest with two cdylib targets of different names, and the result of
\* a build for the first of them.
C21_Witness ==
  \E r \in Active :
    /\ GotManifest(r)
    /\ Len(ManifestOf(r).targets) = 2
    /\ \A i \in 1..2 : "cdylib" \in ManifestOf(r).targets[i].crate_types
    /\ ManifestOf(r).targets[1].name = "crate2"
    /\ ManifestOf(r).targets[2].name = "crate1"
    /\ req[r].pc = "done" /\ req[r].result.jsPath = JsPath("crate2")

\* compileRustCrate of request r calls getCargoTargetDir in this step.
CallsGetCargoTargetDir(r) ==
  /\ req[r] # Idle /\ req[r].pc = "manifest"
  /\ req'[r].pc \in {"metadata", "build"}

\* C22: when the crate directory of a request has a memoized target
\* directory at the call of getCargoTargetDir, the request spawns no cargo
\* metadata: it goes on to cargo build at once, with the memoized directory
\* as --target-dir.
C22_MemoizedWithoutSubprocess ==
  [][\A r \in Requests :
       (CallsGetCargoTargetDir(r) /\ cargoTargetDirCache[req[r].p] # NotMemoized)
       => /\ req'[r].pc = "build"
          /\ req'[r].ran = Append(req[r].ran, "cargo build")
          /\ Last(req'[r].argv)[1] = cargoTargetDirCache[req[r].p]
          /\ cargoTargetDirCache' = cargoTargetDirCache]_vars

\* A request that missed the cache or found a stale entry runs cargo build in
\* the memoized directory without having run cargo metadata.
C22_Witness ==
  \E r \in Active :
    /\ req[r].lookup \in {"miss", "stale"}
    /\ req[r].pc = "build"
    /\ req[r].ran = <<"cargo read-manifest", "cargo build">>
    /\ req[r].argv[2][1] = TargetDir(req[r].p)
    /\ cargoTargetDirCache[req[r].p] = TargetDir(req[r].p)

\* cargo metadata of request r has ended without a target directory: it
\* exited with a code other than 0, could not be spawned, or printed what
\* JSON.parse rejects.
MetadataFailed(r) ==
  /\ req[r] # Idle /\ req[r].ran # <<>> /\ Last(req[r].ran) = "cargo metadata"
  /\ Len(events[r]) = Len(req[r].ran)
  /\ \/ ~Succeeded(Last(Ended(r)))
     \/ ~Last(Ended(r)).stdout.parses

\* C23: the step in which cargo metadata ends without a target directory
\* fails the request and leaves cargoTargetDirCache as it was; and a request
\* whose crate directory has no memoized target directory at the call of
\* getCargoTargetDir spawns cargo metadata.
C23_FailureNotMemoized ==
  /\ [](\A r \in Requests : MetadataFailed(r) => req[r].pc = "failed")
  /\ [][\A r \in Requests :
          (req[r] # Idle /\ req[r].pc = "metadata" /\ req'[r].pc = "failed")
          => cargoTargetDirCache' = cargoTargetDirCache]_vars
  /\ [][\A r \in Requests :
          (CallsGetCargoTargetDir(r) /\ cargoTargetDirCache[req[r].p] = NotMemoized)
          => /\ req'[r].pc = "metadata"
             /\ req'[r].ran = Append(req[r].ran, "cargo metadata")]_vars

\* A request failed because the output of cargo metadata could not be parsed,
\* the crate directory has no memoized target directory, and another
\* request for the crate runs cargo metadata.
C23_Witness ==
  \E r, q \in Active :
    /\ r < q /\ req[r].p = req[q].p
    /\ MetadataFailed(r) /\ req[r].error = <<"SyntaxError", "JSON.parse">>
    /\ cargoTargetDirCache[req[r].p] = NotMemoized
    /\ req[q].pc = "metadata" /\ Len(events[q]) = 1

\* Request r writes cargoTargetDirCache in this step (line 623).
Memoizes(r) == req[r] # Idle /\ req[r].pc = "metadata" /\ req'[r].pc = "build"

\* C24 as stated: the target directory of a crate directory is written at
\* most once, so no request writes it when it is memoized.
C24_WrittenAtMostOnce ==
  [][\A r \in Requests :
       Memoizes(r) => cargoTargetDirCache[req[r].p] = NotMemoized]_vars

\* C24: a memoized target directory is never removed and never changes its
\* value, while every request that ran cargo metadata writes it: what a
\* request writes is the directory cargo metadata printed for it, and a
\* request writes at most once.
C24_MemoNeverChanges ==
  /\ [][\A p \in Projects :
          cargoTargetDirCache[p] # NotMemoized
          => cargoTargetDirCache'[p] = cargoTargetDirCache[p]]_vars
  /\ [][\A r \in Requests :
          Memoizes(r)
          => /\ cargoTargetDirCache'[req[r].p] =
                  Last(events'[r])[1].stdout.value.target_directory
             /\ Len(events[r]) = 1]_vars

\* Two concurrent requests for one crate both ran cargo metadata to its end
\* and both wrote the target directory.
C24_Witness ==
  \E r, q \in Active :
    /\ r # q /\ req[r].p = req[q].p
    /\ \A x \in {r, q} :
         /\ "cargo metadata" \in Range(req[x].ran)
         /\ req[x].pc \in {"build", "opt", "bindgen", "done"}
    /\ cargoTargetDirCache[req[r].p] = TargetDir(req[r].p)

----------------------------------------------------------------------------
\* Properties of the artifact paths.

\* The binary cargo build of request r wrote.
Compiled(r) ==
  CargoBuildOutput(Args(r, "cargo build")[1], Args(r, "cargo build")[2], CrateNameOf(r))

\* How often request r spawned a command.
Times(r, command) == Cardinality({i \in DOMAIN req[r].ran : req[r].ran[i] = command})

C26_ArtifactThreaded ==
  \A r \in Active :
    /\ "wasm-opt" \in Range(req[r].ran) => Args(r, "wasm-opt")[1] = Compiled(r)
    /\ ("wasm-bindgen" \in Range(req[r].ran) /\ ~optimizeWebassembly)
         => Args(r, "wasm-bindgen")[1] = Compiled(r)

----------------------------------------------------------------------------
\* Properties of the handler's control flow (BarrierSpec).

\* The handler of request r knows the target directory: getCargoTargetDir
\* has returned, and cargo build was spawned with it.
TargetDirResolved(r) == "cargo build" \in Range(req[r].ran)

\* The promise of the compilation of request r is pending.
BarrierHeld(r) ==
  /\ compilationPromises[req[r].c] # NoSignal
  /\ signal[compilationPromises[req[r].c]].state = "pending"

\* C27 as stated: the target directory is resolved before the cache is
\* looked up, so a request that has looked the cache up knows it.
C27_TargetDirBeforeLookup ==
  \A r \in Active : req[r].lookup # "none" => TargetDirResolved(r)

\* C27: a request first gets the manifest, then looks the cache up; only
\* after a miss it resolves the target directory, from the memo or by cargo
\* metadata, and runs the pipeline, and a hit spawns nothing more; the cache
\* is written in the step in which the last process of the pipeline ends;
\* and the promise of the request's compilation is pending as long as the
\* request is there, so that it is resolved after the cache was written.
C27_ControlFlow ==
  /\ [](\A r \in Active :
          /\ req[r].ran # <<>> => req[r].ran[1] = "cargo read-manifest"
          /\ req[r].lookup # "none" => GotManifest(r)
          /\ req[r].lookup = "none" => Len(req[r].ran) <= 1
          /\ req[r].lookup = "hit" =>
               /\ req[r].ran = <<"cargo read-manifest">>
               /\ ~TargetDirResolved(r)
          /\ req[r].lookup \in {"miss", "stale"} =>
               /\ Len(req[r].ran) >= 2
               /\ req[r].ran[2] \in {"cargo metadata", "cargo build"}
               /\ IsPrefix(StepsRan(r), Steps)
          /\ own[req[r].c] => BarrierHeld(r))
  /\ [][\A p \in Projects :
          compilationCache'[p] # compilationCache[p]
          => \E r \in Requests :
               /\ Stores(r) /\ req[r].p = p
               /\ Last(req[r].ran) = "wasm-bindgen"
               /\ own[req[r].c] => BarrierHeld(r)]_vars

\* A request of the second compilation hit the entry a request of the first
\* compilation stored, after cargo read-manifest alone; the promise of the
\* first compilation is resolved.
C27_Witness ==
  \E r \in Active :
    /\ req[r].c = 2 /\ req[r].lookup = "hit" /\ req[r].pc = "done"
    /\ req[r].ran = <<"cargo read-manifest">>
    /\ req[r].result = compilationCache[req[r].p]
    /\ \E s \in DOMAIN signal : signal[s].of = 1 /\ signal[s].state = "resolved"

\* The host calls beforeResolve in this step, with request slot r, for the
\* lib.rs of a crate, which exists.
Intercepts(r) ==
  /\ req[r] = Idle /\ req'[r] # Idle
  /\ req'[r].request = LibRs(req'[r].p)
  /\ LibRs(req'[r].p) \in exists

\* C28: the handler of a request for an existing lib.rs spawns cargo
\* read-manifest at once, whatever compilationCache holds, and spawns it once;
\* the cache is looked up only after it closed with exit code 0, also by a
\* request that hits the cache.
C28_ManifestOnEveryRequest ==
  /\ [][\A r \in Requests :
          Intercepts(r) => /\ req'[r].pc = "manifest"
                           /\ req'[r].ran = <<"cargo read-manifest">>
                           /\ req'[r].lookup = "none"]_vars
  /\ [](\A r \in Active :
          /\ Times(r, "cargo read-manifest") <= 1
          /\ req[r].lookup # "none" =>
               /\ Times(r, "cargo read-manifest") = 1
               /\ req[r].ran[1] = "cargo read-manifest"
               /\ Succeeded(events[r][1][1]))

\* A request that hit the cache, with cargo read-manifest as the one process
\* it has run.
C28_Witness ==
  \E r \in Active :
    /\ req[r].lookup = "hit" /\ req[r].pc = "done"
    /\ Times(r, "cargo read-manifest") = 1
    /\ Len(events[r]) = 1 /\ Succeeded(events[r][1][1])
    /\ compilationCache[req[r].p] # None

\* C29: the request of a handler that ended without error is the jsPath of
\* the entry of its crate, after a hit as after a build; the request of a
\* handler that is running or has failed is the one the host passed, and a
\* failed handler keeps its error for the host.
C29_RequestReplacedOnSuccess ==
  /\ [](\A r \in Active :
          /\ req[r].pc = "done" =>
               /\ req[r].request = req[r].result.jsPath
               /\ req[r].result = compilationCache[req[r].p]
               /\ req[r].error = <<"none", "none">>
          /\ req[r].pc \in Awaiting \cup {"failed"} => req[r].request = LibRs(req[r].p)
          /\ req[r].pc = "failed" => req[r].error # <<"none", "none">>)
  /\ [][\A r \in Requests :
          (req[r] # Idle /\ req[r].pc \in Settled /\ req'[r] # Idle)
          => /\ req'[r].request = req[r].request
             /\ req'[r].pc = req[r].pc]_vars

\* The request of a handler that rebuilt a stale entry is the index.js of
\* the crate's output directory.
C29_Witness ==
  \E r \in Active :
    /\ req[r].pc = "done" /\ req[r].lookup = "stale"
    /\ req[r].request = JsPath(CrateName(req[r].p))
    /\ req[r].request # LibRs(req[r].p)

----------------------------------------------------------------------------
\* Properties of the staleness check under removals (RaceSpec).

\* The files isResultValid stats for the entry of the crate of request r.
Stats(r) ==
  {CargoToml(req[r].p), Entry(r).jsPath}
    \cup {f \in SrcFiles(req[r].p) \cap exists : EndsWithRs(f)}

\* C30: when a request comes to the cache lookup, its crate has an entry and
\* one of the files the staleness check stats is not there or is removed
\* under it, the entry is taken for stale and the request goes on into the
\* pipeline: it does not fail in this step.
C30_StatFailureRebuilds ==
  [][\A r \in Requests :
       (/\ req[r] # Idle /\ req[r].pc = "manifest"
        /\ events'[r] # <<>>
        /\ Succeeded(events'[r][1][1])
        /\ HasCdylib(events'[r][1][1].stdout.value)
        /\ Entry(r) # None
        /\ \E f \in Stats(r) : ~Stat(f))
       => /\ req'[r].lookup = "stale"
          /\ req'[r].pc \in {"metadata", "build"}
          /\ req'[r].error = <<"none", "none">>]_vars

\* A request rebuilds although the artifacts and Cargo.toml are there and no
\* file was written: a source file was removed between the listing of its
\* directory and its stat.
C30_Witness ==
  \E r \in Active :
    /\ req[r].lookup = "stale" /\ req[r].pc = "build"
    /\ ArtifactsExist(Entry(r))
    /\ CargoToml(req[r].p) \in exists
    /\ \E f \in SrcFiles(req[r].p) : EndsWithRs(f) /\ f \notin exists
    /\ \A f \in AllFiles : mtime[f] = 0

----------------------------------------------------------------------------
\* Unreadable directories in the staleness walk.

\* The .rs files of p the walk can reach: those in directories that, like
\* every directory above them, can be read.
RECURSIVE ReachableSources(_, _)
ReachableSources(p, dir) ==
  IF <<p, dir>> \in unreadable
  THEN {}
  ELSE {f \in FilesIn(p, dir) \cap exists : f.ext = "rs"}
       \cup UNION {ReachableSources(p, d) : d \in SubDirs(dir)}

\* C31: a directory of the source tree that cannot be read counts as having
\* no entries: a lookup that finds the artifacts, a descriptor not newer than
\* the bridge module and no reachable source file newer than it is a hit,
\* whether or not some directory of the tree is unreadable.
C31_UnreadableContributesNothing ==
  [][\A r \in Requests :
       (/\ LooksUp(r) /\ Entry(r) # None /\ vanished = {}
        /\ ArtifactsExist(Entry(r))
        /\ CargoToml(req[r].p) \in exists
        /\ mtime[CargoToml(req[r].p)] <= mtime[Bridge(r)]
        /\ \A f \in ReachableSources(req[r].p, SrcDir) : mtime[f] <= mtime[Bridge(r)])
       => req'[r].lookup = "hit"]_vars

----------------------------------------------------------------------------
\* The cache over a build, a change and a rebuild.

\* C32: a lookup that finds the artifacts with neither the descriptor nor a
\* source file newer than the bridge module is a hit that spawns nothing
\* more; a lookup that finds a source file touched after the build is stale
\* and rebuilds; and the entry a build stores is valid from the moment it is
\* stored, so that the lookup after a rebuild is a hit again.
C32_ValidInvalidValidAgain ==
  [][\A r \in Requests :
       LET p == req[r].p
       IN  /\ (LooksUp(r) /\ Entry(r) # None /\ UpToDate(p, Entry(r)))
              => /\ req'[r].pc = "done" /\ req'[r].lookup = "hit"
                 /\ req'[r].result = Entry(r)
                 /\ req'[r].ran = <<"cargo read-manifest">>
                 /\ created' = created
           /\ (LooksUp(r) /\ Entry(r) # None
                 /\ \E f \in RustSources(p) : mtime[f] > mtime[Bridge(r)])
              => /\ req'[r].lookup = "stale"
                 /\ req'[r].pc \in {"metadata", "build"}
           /\ (req[r] # Idle /\ req[r].pc = "bindgen" /\ req'[r].pc = "done")
              => /\ compilationCache'[p] = req'[r].result
                 /\ mtime'[req'[r].result.jsPath] = clock
                 /\ IsResultValid(compilationCache[p], p)']_vars

\* The request after the rebuild: the first build was stale because a source
\* file was touched after it, the rebuild is newer than that file, and the
\* lookup is a hit on the rebuilt entry.
C32_Witness ==
  \E r \in Active :
    /\ req[r].pc = "done" /\ req[r].lookup = "hit"
    /\ req[r].ran = <<"cargo read-manifest">>
    /\ req[r].result = Entry(r) /\ req[r].result.obj = 2 /\ created = 2
    /\ mtime[CargoToml(req[r].p)] = 0
    /\ \E f \in RustSources(req[r].p) :
         /\ mtime[f] = 2
         /\ mtime[Bridge(r)] = 3

----------------------------------------------------------------------------
\* The package descriptor of the output directory.

\* wasm-bindgen of request r has ended in this step.
BindEnds(r) == req[r] # Idle /\ req[r].pc = "bindgen" /\ req'[r].pc # "bindgen"

\* C33: package.json is written only in the step in which wasm-bindgen exited
\* with code 0, to the output directory of the crate, naming index.js as main
\* and index.d.ts as types, and the entry stored in that step points into
\* that directory; a bind step that fails writes no package.json; and no
\* entry is ever in the cache without the package.json of its directory.
C33_DescriptorAfterBind ==
  /\ [][/\ packageJson' # packageJson
           => \E r \in Requests :
                LET out == Last(Last(events'[r]))
                    dir == OutputDir(CrateNameOf(r))
                IN  /\ BindEnds(r)
                    /\ out.event = "close" /\ out.code = "0"
                    /\ \A d \in OutputDirs \ {dir} : packageJson'[d] = packageJson[d]
                    /\ packageJson'[dir].main = FileName(req'[r].result.jsPath)
                    /\ packageJson'[dir].types = FileName(req'[r].result.dtsPath)
                    /\ req'[r].result.jsPath.root = dir
                    /\ compilationCache'[req[r].p] = req'[r].result
        /\ \A r \in Requests :
             (BindEnds(r) /\ req'[r].pc = "failed")
             => packageJson' = packageJson /\ compilationCache' = compilationCache]_vars
  /\ [](\A p \in Projects :
          compilationCache[p] # None
          => packageJson[compilationCache[p].jsPath.root] # None)

\* A build whose bind step has just exited with 0: the output directory of
\* the crate has its package.json and the cache has the entry.
C33_Witness ==
  \E r \in Active :
    /\ req[r].pc = "done" /\ req[r].ran # <<>>
    /\ req[r].ran[Len(req[r].ran)] = "wasm-bindgen"
    /\ packageJson[OutputDir("crate1")] = PackageJsonContent("crate1")
    /\ packageJson[OutputDir("crate2")] = None
    /\ compilationCache[req[r].p] = req[r].result
    /\ req[r].result.jsPath.root = OutputDir("crate1")

----------------------------------------------------------------------------
\* Requests the handler does not build for.

\* resolveData.request.endsWith("lib.rs")
EndsWithLibRs(request) == FileName(request) = <<"lib", "rs">>

\* The host calls beforeResolve in this step, with request slot r.
Called_beforeResolve(r) == req[r] = Idle /\ req'[r] # Idle

Caches == <<compilationCache, cargoTargetDirCache>>

\* C34: the handler of a request that does not end with lib.rs returns at
\* once: it spawns no process and changes neither the request nor a cache,
\* and nothing happens for that request until the host takes it back.
C34_OtherRequestsPass ==
  [][\A r \in Requests :
       /\ (Called_beforeResolve(r) /\ ~EndsWithLibRs(req'[r].request))
          => /\ req'[r].pc = "passed"
             /\ req'[r].ran = <<>> /\ events'[r] = <<>>
             /\ req'[r].request = Readme(req'[r].p)
             /\ req'[r].result = None
             /\ Caches' = Caches
             /\ exists' = exists /\ packageJson' = packageJson
       /\ (req[r] # Idle /\ ~EndsWithLibRs(req[r].request) /\ req'[r] # req[r])
          => req'[r] = Idle /\ Caches' = Caches]_vars

\* A request for another file of a crate whose entry is in the cache and
\* whose target directory is memoized.
C34_Witness ==
  \E r \in Active :
    /\ req[r].pc = "passed" /\ req[r].ran = <<>>
    /\ req[r].request = Readme(req[r].p)
    /\ compilationCache[req[r].p] # None
    /\ cargoTargetDirCache[req[r].p] # NotMemoized

\* C35: the handler of a request that ends with lib.rs and names no existing
\* file throws 'lib.rs not found' at once: it spawns no process and changes
\* neither the request nor a cache, and nothing happens for that request
\* until the host takes the error.
C35_MissingLibRsFails ==
  [][\A r \in Requests :
       /\ (/\ Called_beforeResolve(r) /\ EndsWithLibRs(req'[r].request)
           /\ req'[r].request \notin exists)
          => /\ req'[r].pc = "failed"
             /\ req'[r].error = <<"beforeResolve", "lib.rs not found">>
             /\ req'[r].ran = <<>> /\ events'[r] = <<>>
             /\ req'[r].request = LibRs(req'[r].p)
             /\ Caches' = Caches
       /\ (req[r] # Idle /\ req[r].ran = <<>> /\ req[r].pc = "failed" /\ req'[r] # req[r])
          => req'[r] = Idle /\ Caches' = Caches]_vars

\* The lib.rs of a crate that was built has been removed: the request fails
\* and the entry of the crate stays in the cache.
C35_Witness ==
  \E r \in Active :
    /\ req[r].pc = "failed" /\ req[r].ran = <<>>
    /\ req[r].error = <<"beforeResolve", "lib.rs not found">>
    /\ req[r].request = LibRs(req[r].p) /\ req[r].request \notin exists
    /\ compilationCache[req[r].p] # None
    /\ cargoTargetDirCache[req[r].p] # NotMemoized

----------------------------------------------------------------------------
\* The callback of the start hook.

\* How often the start hook of compilation c has invoked its callback.
Calls(c) ==
  CASE waiter[c] \in {"called", "calledWithError"} -> 1
    [] waiter[c] = "calledTwice" -> 2
    [] OTHER -> 0

\* C36: an invocation of the start hook never invokes its callback a second
\* time, whether the callback returns or throws.
C36_CalledExactlyOnce == \A c \in Compilations : Calls(c) <= 1

----------------------------------------------------------------------------
\* The artifacts of different crates.

ArtifactsOf(e) == {e.jsPath, e.wasmPath, e.dtsPath}

\* C37: the entries stored under two different Cargo.toml paths have no
\* artifact path in common.
C37_EntriesShareNoArtifact ==
  \A p, q \in Projects :
    (p # q /\ compilationCache[p] # None /\ compilationCache[q] # None)
    => ArtifactsOf(compilationCache[p]) \cap ArtifactsOf(compilationCache[q]) = {}

----------------------------------------------------------------------------
\* The table of promises.

\* C38: compilationPromises holds a promise only for a compilation of the
\* plugin's compiler whose compilation hook has run and whose afterCompile
\* has not, and that promise is pending; afterCompile removes it; and a start
\* hook that finds no promise for its compilation does not wait: its next
\* step is the call of its callback, without error, whatever the promises of
\* other compilations are.
C38_TableHoldsRunningCycles ==
  /\ [](\A c \in Compilations :
          /\ compilationPromises[c] # NoSignal
             => /\ own[c] /\ phase[c] = "make"
                /\ signal[compilationPromises[c]].of = c
                /\ signal[compilationPromises[c]].state = "pending"
          /\ phase[c] = "ended" => compilationPromises[c] = NoSignal)
  /\ [][\A c \in Compilations :
          /\ (waiter[c] = "none" /\ waiter'[c] # "none" /\ compilationPromises[c] = NoSignal)
             => waiter'[c] = "resuming" /\ awaited'[c] = NoSignal
          /\ (waiter[c] = "resuming" /\ waiter'[c] # "resuming")
             => waiter'[c] = "called"]_vars

\* The start hook was called for a compilation of the plugin's compiler
\* after its afterCompile, and for a compilation of another compiler while a
\* promise was pending: both callbacks were called, with nothing awaited.
C38_Witness ==
  /\ own[1] /\ phase[1] = "ended" /\ SignalsOf(1) # {}
  /\ compilationPromises[1] = NoSignal
  /\ waiter[1] = "called" /\ awaited[1] = NoSignal
  /\ ~own[2] /\ phase[2] = "make"
  /\ waiter[2] = "called" /\ awaited[2] = NoSignal

----------------------------------------------------------------------------
\* Requests after a failure.

\* cargo read-manifest of request r closes in this step with exit code 0 and
\* a manifest that has a cdylib target: compileRustCrate is called.
CallsCompileRustCrate(r) ==
  /\ req[r] # Idle /\ req[r].pc = "manifest"
  /\ events'[r] # events[r] /\ events'[r] # <<>>
  /\ Succeeded(events'[r][1][1])
  /\ HasCdylib(events'[r][1][1].stdout.value)

\* C39: whatever failed before, compileRustCrate returns the stored entry
\* only when the staleness check accepts it, and otherwise starts the
\* pipeline: cargo build in the memoized target directory, or cargo metadata
\* when none is memoized; and a request is rejected only in a step in which
\* one of its own processes ended, except for a missing lib.rs.
C39_FailuresNotCached ==
  [][\A r \in Requests :
       LET p == req[r].p
       IN  /\ CallsCompileRustCrate(r)
              => IF Entry(r) # None /\ IsResultValid(Entry(r), p)
                 THEN req'[r].pc = "done" /\ req'[r].result = Entry(r)
                 ELSE /\ req'[r].error = <<"none", "none">>
                      /\ req'[r].result = None
                      /\ IF cargoTargetDirCache[p] # NotMemoized
                         THEN /\ req'[r].pc = "build"
                              /\ req'[r].ran = <<"cargo read-manifest", "cargo build">>
                              /\ Last(req'[r].argv)[1] = cargoTargetDirCache[p]
                         ELSE /\ req'[r].pc = "metadata"
                              /\ req'[r].ran = <<"cargo read-manifest", "cargo metadata">>
           /\ (req[r] # Idle /\ req[r].pc # "failed" /\ req'[r].pc = "failed")
              => /\ events'[r] # events[r]
                 /\ Len(events'[r]) = Len(req[r].ran)]_vars

\* The request after one whose cargo build failed: it found no entry, ran
\* cargo build again in the memoized target directory, and its bind step has
\* stored the first result.
C39_Witness ==
  \E r \in Active :
    /\ req[r].c \in buildFailed
    /\ req[r].pc = "done" /\ req[r].lookup = "miss"
    /\ req[r].ran[2] = "cargo build"
    /\ req[r].argv[2][1] = cargoTargetDirCache[req[r].p]
    /\ req[r].result.obj = 1 /\ Entry(r) = req[r].result

====
